---- MODULE Spec2Model ----
(***************************************************************************)
(* GG Wallet: the inference-request signer (src/lib/gonka-signer.ts), the  *)
(* keystore (background/keystore.ts), the background message handler      *)
(* (background/index.ts) and the dApp provider handler                    *)
(* (background/provider-handler.ts).                                      *)
(*                                                                         *)
(* TLC computes with 32-bit integers, so the signer is modelled on a      *)
(* scaled-down curve of the same shape as secp256k1: y^2 = x^3 + 7 over   *)
(* the prime field P = 211, whose group has prime order CURVE_ORDER = 199 *)
(* (cofactor 1, CURVE_ORDER < P < 2^qlen, no point with x = 0).  Every    *)
(* 32-byte quantity of the source is one byte here (qlen = 8, holen = 1,  *)
(* a private key is KEY_BYTES = 1 byte = 2 hex characters); the code paths *)
(* are translated unchanged.  SHA-256 and HMAC-SHA256 are library         *)
(* primitives (@noble/hashes); they are modelled by a fixed mixing        *)
(* function with a one-byte output.                                       *)
(***************************************************************************)
EXTENDS Integers, Sequences, FiniteSets, TLC

-----------------------------------------------------------------------------
(* Curve parameters (gonka-signer.ts:17-22, 83-84)                          *)

CURVE_ORDER == 199

HALF_ORDER == CURVE_ORDER \div 2

P == 211

Gx == 3

Gy == 33

POINT_AT_INFINITY == [x |-> 0, y |-> 0]

G == [x |-> Gx, y |-> Gy]

qlen == 8

holen == 1

KEY_BYTES == 1

NaN == 0 - 1

Byte == 0..255

-----------------------------------------------------------------------------
(* BigInt arithmetic: `/` truncates toward zero, `%` takes the sign of the  *)
(* dividend.                                                                *)

Abs(a) == IF a < 0 THEN -a ELSE a

BigIntDiv(a, b) ==
    IF (a >= 0) = (b > 0) THEN Abs(a) \div Abs(b) ELSE -(Abs(a) \div Abs(b))

BigIntRem(a, b) == a - b * BigIntDiv(a, b)

mod(a, m) ==
    LET r == BigIntRem(a, m) IN IF r < 0 THEN r + m ELSE r

RECURSIVE egcd(_, _, _, _)
egcd(old_r, r, old_s, s) ==
    IF r = 0 THEN old_s
    ELSE LET q == BigIntDiv(old_r, r)
         IN egcd(r, old_r - q * r, s, old_s - q * s)

modInverse(a, m) == mod(egcd(a, m, 1, 0), m)

-----------------------------------------------------------------------------
(* secp256k1 point arithmetic (affine)                                      *)

pointAdd(p1, p2) ==
    IF p1.x = 0 /\ p1.y = 0 THEN p2
    ELSE IF p2.x = 0 /\ p2.y = 0 THEN p1
    ELSE IF p1.x = p2.x /\ p1.y # p2.y THEN POINT_AT_INFINITY
    ELSE LET lam == IF p1.x = p2.x /\ p1.y = p2.y
                    THEN mod(3 * p1.x * p1.x * modInverse(2 * p1.y, P), P)
                    ELSE mod((p2.y - p1.y) * modInverse(p2.x - p1.x, P), P)
             x3 == mod(lam * lam - p1.x - p2.x, P)
             y3 == mod(lam * (p1.x - x3) - p1.y, P)
         IN [x |-> x3, y |-> y3]

RECURSIVE scalarMultLoop(_, _, _)
scalarMultLoop(result, addend, n) ==
    IF n > 0
    THEN scalarMultLoop(IF n % 2 = 1 THEN pointAdd(result, addend) ELSE result,
                        pointAdd(addend, addend), n \div 2)
    ELSE result

scalarMult(k, point) == scalarMultLoop(POINT_AT_INFINITY, point, k)

-----------------------------------------------------------------------------
(* Byte / BigInt / string conversions.  A string is a sequence of           *)
(* one-character strings, a Uint8Array a sequence of Byte.                  *)

HexDigits == <<"0", "1", "2", "3", "4", "5", "6", "7",
               "8", "9", "a", "b", "c", "d", "e", "f">>

UpperHex == <<"0", "1", "2", "3", "4", "5", "6", "7",
              "8", "9", "A", "B", "C", "D", "E", "F">>

IndexOf(c, table) ==
    IF \E i \in 1..Len(table) : table[i] = c
    THEN CHOOSE i \in 1..Len(table) : table[i] = c
    ELSE 0

\* the value of one character as a base-16 digit, NaN when it is none
DigitValue(c) ==
    IF IndexOf(c, HexDigits) > 0 THEN IndexOf(c, HexDigits) - 1
    ELSE IF IndexOf(c, UpperHex) > 0 THEN IndexOf(c, UpperHex) - 1
    ELSE NaN

\* s.substr(start, 2), start counted from 0
substr2(s, start) == SubSeq(s, start + 1, IF start + 2 <= Len(s) THEN start + 2 ELSE Len(s))

\* parseInt(chunk, 16) of a chunk of at most two characters: an optional
\* "0x" is skipped, then the longest prefix of hex digits is read.
parseInt16(chunk) ==
    LET body == IF Len(chunk) = 2 /\ chunk[1] = "0" /\ chunk[2] \in {"x", "X"}
                THEN <<>> ELSE chunk
    IN IF Len(body) = 0 \/ DigitValue(body[1]) = NaN THEN NaN
       ELSE IF Len(body) = 1 \/ DigitValue(body[2]) = NaN THEN DigitValue(body[1])
       ELSE 16 * DigitValue(body[1]) + DigitValue(body[2])

\* storing a number into a Uint8Array element: NaN is stored as 0
ToUint8(n) == IF n = NaN THEN 0 ELSE n % 256

\* new Uint8Array(hex.length / 2): a fractional length is truncated
hexToBytes(hex) ==
    [i \in 1..(Len(hex) \div 2) |-> ToUint8(parseInt16(substr2(hex, (i - 1) * 2)))]

\* privateKeyHex.replace(/^0x/, "")
stripHexPrefix(str) ==
    IF Len(str) >= 2 /\ str[1] = "0" /\ str[2] = "x" THEN SubSeq(str, 3, Len(str)) ELSE str

RECURSIVE bytesToHex(_)
bytesToHex(bytes) ==
    IF bytes = <<>> THEN <<>>
    ELSE <<HexDigits[(bytes[1] \div 16) + 1], HexDigits[(bytes[1] % 16) + 1]>>
         \o bytesToHex(Tail(bytes))

RECURSIVE bytesToBigIntAcc(_, _)
bytesToBigIntAcc(result, bytes) ==
    IF bytes = <<>> THEN result
    ELSE bytesToBigIntAcc(result * 256 + bytes[1], Tail(bytes))

bytesToBigInt(bytes) == bytesToBigIntAcc(0, bytes)

\* n.toString(radix) of a non-negative BigInt
RECURSIVE toStringRadix(_, _)
toStringRadix(n, radix) ==
    IF n < radix THEN <<HexDigits[n + 1]>>
    ELSE toStringRadix(n \div radix, radix) \o <<HexDigits[(n % radix) + 1]>>

bigIntToBytes(n) ==
    IF n = 0 THEN <<0>>
    ELSE LET hex == toStringRadix(n, 16)
             paddedHex == IF Len(hex) % 2 = 1 THEN <<"0">> \o hex ELSE hex
         IN hexToBytes(paddedHex)

Zeros(n) == [i \in 1..n |-> 0]

\* bigIntToBytes32: the last KEY_BYTES bytes, left-padded with zeros
bigIntToBytes32(n) ==
    LET bytes == bigIntToBytes(n)
    IN IF Len(bytes) >= KEY_BYTES
       THEN SubSeq(bytes, Len(bytes) - KEY_BYTES + 1, Len(bytes))
       ELSE Zeros(KEY_BYTES - Len(bytes)) \o bytes

-----------------------------------------------------------------------------
(* Library primitives: SHA-256 and HMAC-SHA256 (@noble/hashes), with a      *)
(* one-byte digest; TextEncoder; btoa.                                      *)

RECURSIVE absorb(_, _)
absorb(acc, data) ==
    IF data = <<>> THEN acc
    ELSE absorb(((acc + data[1]) * 73 + 41) % 256, Tail(data))

sha256(data) == <<absorb(99, data \o <<Len(data) % 256>>)>>

hmac(key, msg) ==
    LET ipad == [i \in 1..Len(key) |-> (key[i] + 54) % 256]
        opad == [i \in 1..Len(key) |-> (key[i] + 92) % 256]
    IN sha256(opad \o sha256(ipad \o msg))

LowerCase == <<"a", "b", "c", "d", "e", "f", "g", "h", "i", "j", "k", "l", "m",
               "n", "o", "p", "q", "r", "s", "t", "u", "v", "w", "x", "y", "z">>

\* the UTF-8 code of an ASCII digit or lower-case letter
CharCode(c) ==
    IF IndexOf(c, LowerCase) > 0 THEN 96 + IndexOf(c, LowerCase)
    ELSE 47 + IndexOf(c, HexDigits)

TextEncode(str) == [i \in 1..Len(str) |-> CharCode(str[i])]

Base64Chars ==
    <<"A", "B", "C", "D", "E", "F", "G", "H", "I", "J", "K", "L", "M",
      "N", "O", "P", "Q", "R", "S", "T", "U", "V", "W", "X", "Y", "Z">>
    \o LowerCase
    \o <<"0", "1", "2", "3", "4", "5", "6", "7", "8", "9", "+", "/">>

RECURSIVE btoa(_)
btoa(b) ==
    IF Len(b) = 0 THEN <<>>
    ELSE IF Len(b) = 1
    THEN <<Base64Chars[(b[1] \div 4) + 1], Base64Chars[(b[1] % 4) * 16 + 1], "=", "=">>
    ELSE IF Len(b) = 2
    THEN <<Base64Chars[(b[1] \div 4) + 1],
           Base64Chars[(b[1] % 4) * 16 + (b[2] \div 16) + 1],
           Base64Chars[(b[2] % 16) * 4 + 1], "=">>
    ELSE <<Base64Chars[(b[1] \div 4) + 1],
           Base64Chars[(b[1] % 4) * 16 + (b[2] \div 16) + 1],
           Base64Chars[(b[2] % 16) * 4 + (b[3] \div 64) + 1],
           Base64Chars[(b[3] % 64) + 1]>>
         \o btoa(SubSeq(b, 4, Len(b)))

uint8ToBase64(buf) == btoa(buf)

-----------------------------------------------------------------------------
(* RFC 6979 helper functions                                                *)

int2octets(val, ql) ==
    LET rlen == (ql + 7) \div 8
        out == bigIntToBytes(val)
    IN IF Len(out) >= rlen THEN SubSeq(out, Len(out) - rlen + 1, Len(out))
       ELSE Zeros(rlen - Len(out)) \o out

bits2int(b, ql) ==
    LET val == bytesToBigInt(b)
        blen == Len(b) * 8
    IN IF blen > ql THEN val \div (2 ^ (blen - ql)) ELSE val

bits2octets(b, q, ql) ==
    LET z1 == bits2int(b, ql)
        z2 == IF z1 - q < 0 THEN z1 ELSE z1 - q
    IN int2octets(z2, ql)

-----------------------------------------------------------------------------
(* State of the signer                                                      *)

VARIABLES
    now,          \* Date.now(), in milliseconds
    pc,           \* "idle" | "loop" (inside rfc6979Sign's while) | "signed" | "done" | "threw"
    call,         \* the arguments of the sign call in progress
    readings,     \* the values Date.now() returned during the call
    D,            \* the private scalar
    msgHash,      \* the digest handed to rfc6979Sign
    timestampNs,  \* sign's local timestampNs
    kk,           \* rfc6979Sign's K
    v,            \* rfc6979Sign's V
    lastRetry,    \* why the loop's previous pass did not return: "none" | "range" | "r0" | "s0"
    rs,           \* what rfc6979Sign returned
    ret,          \* what sign returned or threw
    runs,         \* completed runs of the engine on (D, msgHash)
    first         \* what the first of them returned

signerVars ==
    <<now, pc, call, readings, D, msgHash, timestampNs, kk, v, lastRetry, rs, ret, runs, first>>

-----------------------------------------------------------------------------
(* State of the wallet: chrome.storage.local, the keystore's module         *)
(* variables, the provider handler's module variables; and, for the        *)
(* properties, a record of what has happened.                               *)

VARIABLES
    wallets,            \* storage gg_wallets: WalletEntry[]
    storedActiveIndex,  \* storage gg_active_index
    connectedSites,     \* storage gg_connected_sites: ConnectedSite[]
    suggestedChains,    \* _suggestedChains (and its copy in storage)
    mnemonic,           \* _mnemonic
    password,           \* _password
    address,            \* _address
    activeIndex,        \* _activeIndex
    viewOnly,           \* _viewOnly
    lockTimer,          \* _lockTimer is armed
    timerLeft,          \* the milliseconds until the armed timer fires
    autoLockMs,         \* _autoLockMs
    idle,               \* the milliseconds since the last message was handled
    calls,              \* the dApp requests received, each with where it stands
    requestCounter,     \* _requestCounter
    approvedIds,        \* request ids an APPROVE_REQUEST found pending
    refusedIds,         \* request ids rejected, or whose window was closed or never opened
    executedIds,        \* request ids whose operation took effect
    lastMsg,            \* the popup's last message and the reply to it
    sinceLock           \* lock() has run and no unlock or addWallet has succeeded since

walletVars ==
    <<wallets, storedActiveIndex, connectedSites, suggestedChains, mnemonic, password,
      address, activeIndex, viewOnly, lockTimer, timerLeft, autoLockMs, idle, calls,
      requestCounter, approvedIds, refusedIds, executedIds, lastMsg, sinceLock>>

-----------------------------------------------------------------------------
(* State of the content script of one tab, with what it has sent and        *)
(* posted; and the arguments and the value of a call of a library function. *)

VARIABLES
    requests,         \* the page's requests, by id (inpage _reqId), with what became of each
    lockedQueue,      \* _lockedQueue
    inFlight,         \* the sendToBackground calls that have not settled
    keystoreChanges,  \* KEYSTORE_CHANGED messages handled
    given,            \* the arguments of the library call
    returned          \* what the library call returned

contentVars == <<requests, lockedQueue, inFlight, keystoreChanges>>

libraryVars == <<given, returned>>

vars == <<signerVars, walletVars, contentVars, libraryVars>>

-----------------------------------------------------------------------------
(* The wallet's constants, the inputs its handlers are given, and its       *)
(* state on a fresh install.                                                *)

GONKA_CHAIN_ID == "gonka-mainnet"

GONKA_COIN_TYPE == 1200

GONKA_BECH32_PREFIX == "gonka"

DEFAULT_AUTO_LOCK_MINUTES == 5

MINUTE == 60 * 1000

MaxWallets == 2

MaxCalls == 2

MaxIdleMinutes == 6

\* the minutes a user may choose in the settings; 0 is "never"
AutoLockChoices == {0, 1, DEFAULT_AUTO_LOCK_MINUTES}

\* null and undefined
Null == "null"

Mnemonics == {"m1", "m2"}

Passwords == {"p1", "p2"}

\* a chain info a dApp may hand to experimentalSuggestChain
OsmosisInfo == [chainId |-> "osmosis-1", bech32PrefixAccAddr |-> "osmo", coinType |-> 118]

SuggestableChains == {OsmosisInfo}

ChainIds == {GONKA_CHAIN_ID, OsmosisInfo.chainId}

\* an address: the bech32 encoding, under a prefix, of the key a mnemonic
\* gives on an HD path m/44'/coinType'/0'/0/0
Bech32(mn, prefix, coinType) == [mnemonic |-> mn, prefix |-> prefix, coinType |-> coinType]

NoAddress == Bech32(Null, "", 0)

\* the address of a key the wallet never holds
WatchedAddress == Bech32("m3", GONKA_BECH32_PREFIX, GONKA_COIN_TYPE)

\* origins a PROVIDER_REQUEST carries; "" is a request without one
DAppOrigins == {"https://dapp", ""}

ChainIdLists == {<<GONKA_CHAIN_ID>>, <<GONKA_CHAIN_ID, OsmosisInfo.chainId>>}

SignerInputs == {Bech32("m1", GONKA_BECH32_PREFIX, GONKA_COIN_TYPE),
                 Bech32("m1", OsmosisInfo.bech32PrefixAccAddr, OsmosisInfo.coinType)}

SignMethods == {"signAmino", "signDirect", "signArbitrary"}

SecretMessages ==
    {"SEND_TOKENS", "DELEGATE", "UNDELEGATE", "WITHDRAW_REWARDS", "GET_MNEMONIC"}

NoReply == [kind |-> "none"]

NoMsg == [type |-> "none", reply |-> NoReply]

Range(f) == {f[i] : i \in DOMAIN f}

InitWallet ==
    /\ wallets = <<>>
    /\ storedActiveIndex = 0
    /\ connectedSites = {}
    /\ suggestedChains = {}
    /\ mnemonic = Null
    /\ password = Null
    /\ address = NoAddress
    /\ activeIndex = 0
    /\ viewOnly = FALSE
    /\ lockTimer = FALSE
    /\ timerLeft = 0
    /\ autoLockMs = DEFAULT_AUTO_LOCK_MINUTES * MINUTE
    /\ idle = 0
    /\ calls = <<>>
    /\ requestCounter = 0
    /\ approvedIds = {}
    /\ refusedIds = {}
    /\ executedIds = {}
    /\ lastMsg = NoMsg
    /\ sinceLock = FALSE

NoLibraryCall == [fn |-> "none"]

InitContent ==
    /\ requests = <<>>
    /\ lockedQueue = <<>>
    /\ inFlight = {}
    /\ keystoreChanges = 0

InitLibrary ==
    /\ given = NoLibraryCall
    /\ returned = NoLibraryCall

\* Bounds of the model
MaxKeyLen == 4

MaxClock == 2

MaxRuns == 2

KeyAlphabet == {"0", "1", "a", "f", "g", "x"}

RECURSIVE StringsUpTo(_, _)
StringsUpTo(alphabet, n) ==
    IF n = 0 THEN {<<>>}
    ELSE LET shorter == StringsUpTo(alphabet, n - 1)
         IN shorter \cup {Append(str, c) : str \in {z \in shorter : Len(z) = n - 1}, c \in alphabet}

KeyInputs == StringsUpTo(KeyAlphabet, MaxKeyLen)

PayloadInputs == {<<>>, <<0>>, <<255, 1>>}

AddressInputs == {<<"g", "o", "n", "k", "a", "1", "q">>, <<"g", "o", "n", "k", "a", "1", "z", "9">>}

NoCall == [privateKeyHex |-> <<>>, payload |-> <<>>, transferAddress |-> <<>>]

NoResult == [r |-> 0, s |-> 0]

NoReturn == [kind |-> "none"]

-----------------------------------------------------------------------------
(* sign (gonka-signer.ts:32-74)                                             *)

\* line 37: the key bytes parsed from the hex string
privKeyOf(privateKeyHex) == hexToBytes(stripHexPrefix(privateKeyHex))

\* line 38: the only validation of the key
keyAccepted(privKey) == Len(privKey) = KEY_BYTES

\* line 43: BigInt(Date.now()) * 1_000_000n
timestampOf(millis) == millis * 1000000

\* the three parts of line 50 in another order
sigInputOf_addressFirst(payloadHex, ts, transferAddress) ==
    transferAddress \o payloadHex \o toStringRadix(ts, 10)

\* line 50: payloadHex + timestampNs.toString() + transferAddress
sigInputOf(payloadHex, ts, transferAddress) ==
    payloadHex \o toStringRadix(ts, 10) \o transferAddress

\* lines 46-53
msgHashOf(payload, ts, transferAddress) ==
    sha256(TextEncode(sigInputOf(bytesToHex(sha256(payload)), ts, transferAddress)))

\* sign without the normalisation of lines 59-61
lowS_skipped(s) == s

\* lines 59-61: low-S normalisation
lowS(s) == IF s > HALF_ORDER THEN CURVE_ORDER - s ELSE s

\* lines 64-68: r || s
encodeOut(r, s) == bigIntToBytes32(r) \o bigIntToBytes32(s)

\* lines 70-73
signReturn(sig, ts) ==
    [kind |-> "ok", signature |-> uint8ToBase64(encodeOut(sig.r, lowS(sig.s))), timestampNs |-> ts]

-----------------------------------------------------------------------------
(* rfc6979Sign (gonka-signer.ts:138-192)                                    *)

\* steps b and c: V = 0x01 repeated, K = 0x00 repeated
initialV == [i \in 1..holen |-> 1]

initialK == Zeros(holen)

\* steps d to g begun from the K and V an earlier run left, steps b and c skipped
seedKV_stale(d, hash) ==
    LET bx == int2octets(d, qlen)
        bh == bits2octets(hash, CURVE_ORDER, qlen)
        k1 == hmac(kk, v \o <<0>> \o bx \o bh)
        v1 == hmac(k1, v)
        k2 == hmac(k1, v1 \o <<1>> \o bx \o bh)
        v2 == hmac(k2, v1)
    IN [kk |-> k2, v |-> v2]

\* steps d to g
seedKV(d, hash) ==
    LET bx == int2octets(d, qlen)
        bh == bits2octets(hash, CURVE_ORDER, qlen)
        k1 == hmac(initialK, initialV \o <<0>> \o bx \o bh)
        v1 == hmac(k1, initialV)
        k2 == hmac(k1, v1 \o <<1>> \o bx \o bh)
        v2 == hmac(k2, v1)
    IN [kk |-> k2, v |-> v2]

\* lines 167-171: the inner while, from t and V to the filled t and the new V
RECURSIVE fillT(_, _, _)
fillT(key, vv, t) ==
    IF Len(t) * 8 < qlen
    THEN LET nv == hmac(key, vv) IN fillT(key, nv, t \o nv)
    ELSE [t |-> t, v |-> vv]

\* a test that lets every candidate through
inRange_any(secret) == secret >= 0

\* line 174
inRange(secret) == secret > 0 /\ secret < CURVE_ORDER

\* lines 176-185 without the two zero tests
candidate_unchecked(secret, d, hash) ==
    LET point == scalarMult(secret, G)
        r == mod(point.x, CURVE_ORDER)
        kInv == modInverse(secret, CURVE_ORDER)
        e == bytesToBigInt(hash)
        s == mod(kInv * (e + r * d), CURVE_ORDER)
    IN [kind |-> "return", r |-> r, s |-> s]

\* lines 176-185: what one in-range candidate gives
candidate(secret, d, hash) ==
    LET point == scalarMult(secret, G)
        r == mod(point.x, CURVE_ORDER)
        kInv == modInverse(secret, CURVE_ORDER)
        e == bytesToBigInt(hash)
        s == mod(kInv * (e + r * d), CURVE_ORDER)
    IN IF r = 0 THEN [kind |-> "r0"]
       ELSE IF s = 0 THEN [kind |-> "s0"]
       ELSE [kind |-> "return", r |-> r, s |-> s]

\* lines 189-190: K = HMAC(K, V || 0x00), V = HMAC(K, V)
reseed(key, vv) ==
    LET k2 == hmac(key, vv \o <<0>>) IN [kk |-> k2, v |-> hmac(k2, vv)]

TypeSigner ==
    /\ now \in 1..MaxClock
    /\ pc \in {"idle", "loop", "signed", "done", "threw"}

\* no sign call has been made
SignerIdle ==
    /\ now = 1
    /\ pc = "idle"
    /\ call = NoCall
    /\ readings = <<>>
    /\ D = 0
    /\ msgHash = Zeros(holen)
    /\ timestampNs = 0
    /\ kk = initialK
    /\ v = initialV
    /\ lastRetry = "none"
    /\ rs = NoResult
    /\ ret = NoReturn
    /\ runs = 0
    /\ first = NoResult

InitSigner ==
    /\ InitWallet
    /\ InitContent
    /\ InitLibrary
    /\ SignerIdle

\* time passes, also while sign runs
Tick ==
    /\ UNCHANGED <<walletVars, contentVars, libraryVars>>
    /\ now < MaxClock
    /\ now' = now + 1
    /\ UNCHANGED <<pc, call, readings, D, msgHash, timestampNs, kk, v, lastRetry, rs, ret,
                   runs, first>>

\* sign, lines 37-56 and 143-163: parse the key, read the clock, hash, seed K and V
SignCall(privateKeyHex, payload, transferAddress) ==
    /\ UNCHANGED <<walletVars, contentVars, libraryVars>>
    /\ pc = "idle"
    /\ call' = [privateKeyHex |-> privateKeyHex, payload |-> payload,
                transferAddress |-> transferAddress]
    /\ rs' = NoResult
    /\ lastRetry' = "none"
    /\ LET privKey == privKeyOf(privateKeyHex)
       IN IF ~keyAccepted(privKey)
          THEN /\ pc' = "threw"
               /\ ret' = [kind |-> "error", message |-> "Private key must be 32 bytes"]
               /\ readings' = <<>>
               /\ UNCHANGED <<D, msgHash, timestampNs, kk, v>>
          ELSE LET ts == timestampOf(now)
                   h == msgHashOf(payload, ts, transferAddress)
                   seed == seedKV(bytesToBigInt(privKey), h)
               IN /\ pc' = "loop"
                  /\ ret' = NoReturn
                  /\ readings' = <<now>>
                  /\ D' = bytesToBigInt(privKey)
                  /\ timestampNs' = ts
                  /\ msgHash' = h
                  /\ kk' = seed.kk
                  /\ v' = seed.v
    /\ UNCHANGED <<now, runs, first>>

\* one pass of the while (true) of rfc6979Sign, lines 166-191
Iterate ==
    /\ UNCHANGED <<walletVars, contentVars, libraryVars>>
    /\ pc = "loop"
    /\ LET filled == fillT(kk, v, <<>>)
           secret == bits2int(filled.t, qlen)
       IN IF inRange(secret)
          THEN LET c == candidate(secret, D, msgHash)
               IN IF c.kind = "return"
                  THEN /\ rs' = [r |-> c.r, s |-> c.s]
                       /\ pc' = "signed"
                       /\ kk' = kk
                       /\ v' = filled.v
                       /\ UNCHANGED lastRetry
                  ELSE \* continue: back to the top with the same K
                       /\ lastRetry' = c.kind
                       /\ kk' = kk
                       /\ v' = filled.v
                       /\ UNCHANGED <<rs, pc>>
          ELSE LET next == reseed(kk, filled.v)
               IN /\ lastRetry' = "range"
                  /\ kk' = next.kk
                  /\ v' = next.v
                  /\ UNCHANGED <<rs, pc>>
    /\ UNCHANGED <<now, call, readings, D, msgHash, timestampNs, ret, runs, first>>

\* sign, lines 58-73: normalise, encode, return
SignReturn ==
    /\ UNCHANGED <<walletVars, contentVars, libraryVars>>
    /\ pc = "signed"
    /\ pc' = "done"
    /\ ret' = signReturn(rs, timestampNs)
    /\ UNCHANGED <<now, call, readings, D, msgHash, timestampNs, kk, v, lastRetry, rs,
                   runs, first>>

NextSign ==
    \/ \E privateKeyHex \in KeyInputs, payload \in PayloadInputs,
          transferAddress \in AddressInputs :
            SignCall(privateKeyHex, payload, transferAddress)
    \/ Iterate
    \/ SignReturn
    \/ Tick

SpecSign == InitSigner /\ [][NextSign]_vars

-----------------------------------------------------------------------------
(* The signing engine alone: rfc6979Sign followed by sign's normalisation,  *)
(* run MaxRuns times on one (D, digest), each run starting from whatever    *)
(* the run before left behind.                                              *)

MaxHash == 64

EngineInit ==
    /\ InitWallet
    /\ InitContent
    /\ InitLibrary
    /\ now = 1
    /\ pc = "idle"
    /\ call = NoCall
    /\ readings = <<>>
    /\ D \in 1..(CURVE_ORDER - 1)
    /\ msgHash \in {<<b>> : b \in (256 - MaxHash)..255}
    /\ timestampNs = 0
    /\ kk = initialK
    /\ v = initialV
    /\ lastRetry = "none"
    /\ rs = NoResult
    /\ ret = NoReturn
    /\ runs = 0
    /\ first = NoResult

\* rfc6979Sign(D, msgHash), lines 138-163
EngineCall ==
    /\ UNCHANGED <<walletVars, contentVars, libraryVars>>
    /\ pc \in {"idle", "done"}
    /\ runs < MaxRuns
    /\ LET seed == seedKV(D, msgHash)
       IN /\ kk' = seed.kk
          /\ v' = seed.v
    /\ pc' = "loop"
    /\ lastRetry' = "none"
    /\ rs' = NoResult
    /\ ret' = NoReturn
    /\ UNCHANGED <<now, call, readings, D, msgHash, timestampNs, runs, first>>

\* lines 56-73 on the engine's result
EngineReturn ==
    /\ UNCHANGED <<walletVars, contentVars, libraryVars>>
    /\ pc = "signed"
    /\ pc' = "done"
    /\ ret' = signReturn(rs, timestampNs)
    /\ runs' = runs + 1
    /\ first' = IF runs = 0 THEN rs ELSE first
    /\ UNCHANGED <<now, call, readings, D, msgHash, timestampNs, kk, v, lastRetry, rs>>

NextEngine ==
    \/ EngineCall
    \/ Iterate
    \/ EngineReturn
    \/ Tick

SpecEngine == EngineInit /\ [][NextEngine]_vars

-----------------------------------------------------------------------------
(* Reading a returned signature back, and the group law of the curve, as    *)
(* the properties below need them.                                          *)

Base64Value(c) == IndexOf(c, Base64Chars) - 1

RECURSIVE atob(_)
atob(str) ==
    IF Len(str) < 4 THEN <<>>
    ELSE LET n == Base64Value(str[1]) * 262144 + Base64Value(str[2]) * 4096
                  + (IF str[3] = "=" THEN 0 ELSE Base64Value(str[3]) * 64)
                  + (IF str[4] = "=" THEN 0 ELSE Base64Value(str[4]))
             b1 == n \div 65536
             b2 == (n \div 256) % 256
             b3 == n % 256
         IN (IF str[3] = "=" THEN <<b1>>
             ELSE IF str[4] = "=" THEN <<b1, b2>>
             ELSE <<b1, b2, b3>>) \o atob(SubSeq(str, 5, Len(str)))

\* r: bytes 0..KEY_BYTES-1 of the decoded signature, s: the KEY_BYTES bytes after them
EncodedR(sig) == bytesToBigInt(SubSeq(atob(sig), 1, KEY_BYTES))

EncodedS(sig) == bytesToBigInt(SubSeq(atob(sig), KEY_BYTES + 1, 2 * KEY_BYTES))

IsHexString(str) == \A i \in 1..Len(str) : DigitValue(str[i]) # NaN

\* exactly 2 * KEY_BYTES hexadecimal characters after one leading "0x"
WellFormedKey(str) ==
    LET body == stripHexPrefix(str)
    IN Len(body) = 2 * KEY_BYTES /\ IsHexString(body)

RECURSIVE DecimalString(_)
DecimalString(n) ==
    IF n < 10 THEN <<HexDigits[n + 1]>>
    ELSE DecimalString(n \div 10) \o <<HexDigits[(n % 10) + 1]>>

FieldInverse(a, m) == CHOOSE x \in 1..(m - 1) : (((a % m) * x) % m) = 1

OnCurve(pt) == ((pt.y * pt.y) % P) = ((pt.x * pt.x * pt.x + 7) % P)

GroupAdd(p1, p2) ==
    IF p1 = POINT_AT_INFINITY THEN p2
    ELSE IF p2 = POINT_AT_INFINITY THEN p1
    ELSE IF p1.x = p2.x /\ ((p1.y + p2.y) % P) = 0 THEN POINT_AT_INFINITY
    ELSE LET lam == IF p1 = p2
                    THEN (3 * p1.x * p1.x * FieldInverse(2 * p1.y, P)) % P
                    ELSE ((p2.y - p1.y) * FieldInverse(p2.x - p1.x, P)) % P
             x3 == (lam * lam - p1.x - p2.x) % P
         IN [x |-> x3, y |-> (lam * (p1.x - x3) - p1.y) % P]

RECURSIVE GroupMult(_, _)
GroupMult(k, pt) ==
    IF k = 0 THEN POINT_AT_INFINITY
    ELSE IF k % 2 = 0 THEN LET half == GroupMult(k \div 2, pt) IN GroupAdd(half, half)
    ELSE GroupAdd(GroupMult(k - 1, pt), pt)

\* standard ECDSA verification of (r, s) on digest e against the public point d.G
Verifies(d, e, r, s) ==
    /\ r \in 1..(CURVE_ORDER - 1)
    /\ s \in 1..(CURVE_ORDER - 1)
    /\ LET w == FieldInverse(s, CURVE_ORDER)
           u1 == (e * w) % CURVE_ORDER
           u2 == (r * w) % CURVE_ORDER
           X == GroupAdd(GroupMult(u1, G), GroupMult(u2, GroupMult(d, G)))
       IN X # POINT_AT_INFINITY /\ (X.x % CURVE_ORDER) = r

ValidScalar(d) == 0 < d /\ d < CURVE_ORDER

-----------------------------------------------------------------------------
(* crypto.ts and cosmos.ts, as the keystore uses them                       *)

\* encrypt (crypto.ts:41-61): AES-GCM under a key derived from the password;
\* the ciphertext is written as the plaintext together with the password
\* that opens it
encrypt(plaintext, pwd) == [plaintext |-> plaintext, key |-> pwd]

\* a decrypt that takes any password
decrypt_anyPassword(ciphertext, pwd) ==
    IF ciphertext.key # Null THEN [ok |-> TRUE, plaintext |-> ciphertext.plaintext]
    ELSE [ok |-> FALSE, plaintext |-> Null]

\* decrypt (crypto.ts:63-84): throws unless the password is the one used
decrypt(ciphertext, pwd) ==
    IF ciphertext.key = pwd THEN [ok |-> TRUE, plaintext |-> ciphertext.plaintext]
    ELSE [ok |-> FALSE, plaintext |-> Null]

NoCiphertext == [plaintext |-> Null, key |-> Null]

\* the private key a mnemonic gives on the path m/44'/coinType'/0'/0/0
PrivateKey(mn, coinType) == [mnemonic |-> mn, coinType |-> coinType]

NoKey == PrivateKey(Null, 0)

\* deriveAddress (cosmos.ts): the Gonka address of a mnemonic
deriveAddress(mn) == Bech32(mn, GONKA_BECH32_PREFIX, GONKA_COIN_TYPE)

-----------------------------------------------------------------------------
(* keystore.ts                                                              *)

\* the module variables and the two storage keys the keystore writes
Keystore ==
    [ok |-> TRUE, error |-> "", mnemonic |-> mnemonic, password |-> password,
     address |-> address, activeIndex |-> activeIndex, viewOnly |-> viewOnly,
     lockTimer |-> lockTimer, timerLeft |-> timerLeft, autoLockMs |-> autoLockMs,
     idle |-> idle, wallets |-> wallets, storedActiveIndex |-> storedActiveIndex]

\* the keystore as a message finds it: the time without a message ends
Received == [Keystore EXCEPT !.idle = 0]

Throw(ks, message) == [ks EXCEPT !.ok = FALSE, !.error = message]

\* resetLockTimer: clear the timer and, unless auto-lock is off, arm it afresh
resetLockTimer(ks) ==
    [ks EXCEPT !.lockTimer = (ks.autoLockMs # 0), !.timerLeft = ks.autoLockMs]

\* clearLockTimer
clearLockTimer(ks) == [ks EXCEPT !.lockTimer = FALSE, !.timerLeft = 0]

\* setAutoLockTimeout
setAutoLockTimeout(ks, minutes) ==
    LET set == [ks EXCEPT !.autoLockMs = IF minutes = 0 THEN 0 ELSE minutes * MINUTE]
    IN IF set.mnemonic # Null \/ set.viewOnly THEN resetLockTimer(set) ELSE set

\* a touchActivity that leaves the timer alone
touchActivity_idle(ks) == ks

\* touchActivity: the first statement of handleMessage
touchActivity(ks) == IF ks.mnemonic # Null THEN resetLockTimer(ks) ELSE ks

\* the entry at a 0-based index
entryAt(list, index) == list[index + 1]

\* addWallet
addWallet(ks, mn, pwdGiven) ==
    LET pwd == IF pwdGiven # Null THEN pwdGiven ELSE ks.password
        index == Len(ks.wallets)
        entry == [address |-> deriveAddress(mn), ciphertext |-> encrypt(mn, pwd),
                  viewOnly |-> FALSE]
    IN IF pwd = Null THEN Throw(ks, "Wallet is locked - no password available")
       ELSE resetLockTimer([ks EXCEPT !.wallets = Append(@, entry),
                                      !.storedActiveIndex = index,
                                      !.mnemonic = mn,
                                      !.password = pwd,
                                      !.address = entry.address,
                                      !.activeIndex = index])

\* addViewOnlyWallet
addViewOnlyWallet(ks, addr) ==
    LET index == Len(ks.wallets)
        entry == [address |-> addr, ciphertext |-> NoCiphertext, viewOnly |-> TRUE]
    IN resetLockTimer([ks EXCEPT !.wallets = Append(@, entry),
                                 !.storedActiveIndex = index,
                                 !.mnemonic = Null,
                                 !.viewOnly = TRUE,
                                 !.address = addr,
                                 !.activeIndex = index])

\* switchWallet
switchWallet(ks, index) ==
    IF index < 0 \/ index >= Len(ks.wallets) THEN Throw(ks, "Invalid wallet index")
    ELSE LET entry == entryAt(ks.wallets, index)
             opened == decrypt(entry.ciphertext, ks.password)
             settle(k) == resetLockTimer([k EXCEPT !.address = entry.address,
                                                   !.activeIndex = index,
                                                   !.storedActiveIndex = index])
         IN IF entry.viewOnly
            THEN settle([ks EXCEPT !.mnemonic = Null, !.viewOnly = TRUE])
            ELSE IF ks.password = Null THEN Throw(ks, "Wallet is locked")
            ELSE IF ~opened.ok THEN Throw(ks, "decrypt failed")
            ELSE settle([ks EXCEPT !.mnemonic = opened.plaintext, !.viewOnly = FALSE])

\* wallets.splice(index, 1)
splice(list, index) ==
    [i \in 1..(Len(list) - 1) |-> IF i <= index THEN list[i] ELSE list[i + 1]]

\* a removeWallet that does not refuse to remove the last wallet
removeWallet_unguarded(ks, index) ==
    IF index < 0 \/ index >= Len(ks.wallets) THEN Throw(ks, "Invalid index")
    ELSE LET rest == splice(ks.wallets, index)
             entry == rest[1]
             opened == decrypt(entry.ciphertext, ks.password)
             newActive == IF index = ks.activeIndex THEN 0
                          ELSE IF index < ks.activeIndex THEN ks.activeIndex - 1
                          ELSE ks.activeIndex
             stored(k) == [k EXCEPT !.activeIndex = newActive, !.wallets = rest,
                                    !.storedActiveIndex = newActive]
         IN IF index = ks.activeIndex /\ ks.password # Null
            THEN IF rest # <<>> /\ opened.ok
                 THEN stored([ks EXCEPT !.mnemonic = opened.plaintext,
                                        !.address = entry.address])
                 ELSE Throw(ks, "decrypt failed")
            ELSE stored(ks)

\* removeWallet
removeWallet(ks, index) ==
    IF Len(ks.wallets) <= 1 THEN Throw(ks, "Cannot remove the last wallet")
    ELSE IF index < 0 \/ index >= Len(ks.wallets) THEN Throw(ks, "Invalid index")
    ELSE LET rest == splice(ks.wallets, index)
             entry == rest[1]
             opened == decrypt(entry.ciphertext, ks.password)
             newActive == IF index = ks.activeIndex THEN 0
                          ELSE IF index < ks.activeIndex THEN ks.activeIndex - 1
                          ELSE ks.activeIndex
             stored(k) == [k EXCEPT !.activeIndex = newActive, !.wallets = rest,
                                    !.storedActiveIndex = newActive]
         IN IF index = ks.activeIndex /\ ks.password # Null
            THEN IF opened.ok
                 THEN stored([ks EXCEPT !.mnemonic = opened.plaintext,
                                        !.address = entry.address])
                 ELSE Throw(ks, "decrypt failed")
            ELSE stored(ks)

\* the first wallet that is not view-only, or none
RECURSIVE findRegular(_, _)
findRegular(list, i) ==
    IF i > Len(list) THEN 0
    ELSE IF ~list[i].viewOnly THEN i
    ELSE findRegular(list, i + 1)

\* unlock; storage holds no legacy wallet, so migrateLegacy finds nothing
unlock(ks, pwd) ==
    IF Len(ks.wallets) = 0 THEN Throw(ks, "No wallet found")
    ELSE LET activeIdx == ks.storedActiveIndex
             entry == IF activeIdx < Len(ks.wallets) THEN entryAt(ks.wallets, activeIdx)
                      ELSE ks.wallets[1]
             regular == findRegular(ks.wallets, 1)
             settle(k) == resetLockTimer([k EXCEPT !.address = entry.address,
                                                   !.activeIndex = activeIdx])
         IN IF entry.viewOnly
            THEN IF regular # 0
                 THEN IF decrypt(ks.wallets[regular].ciphertext, pwd).ok
                      THEN settle([ks EXCEPT !.password = pwd, !.mnemonic = Null,
                                             !.viewOnly = TRUE])
                      ELSE Throw(ks, "decrypt failed")
                 ELSE settle([ks EXCEPT !.mnemonic = Null, !.viewOnly = TRUE])
            ELSE IF decrypt(entry.ciphertext, pwd).ok
                 THEN settle([ks EXCEPT !.mnemonic = entry.ciphertext.plaintext,
                                        !.password = pwd, !.viewOnly = FALSE])
                 ELSE Throw(ks, "decrypt failed")

\* lock that leaves the cached password in place
lock_keepsPassword(ks) ==
    clearLockTimer([ks EXCEPT !.mnemonic = Null, !.viewOnly = FALSE])

\* lock
lock(ks) ==
    clearLockTimer([ks EXCEPT !.mnemonic = Null, !.password = Null, !.viewOnly = FALSE])

\* isUnlocked
isUnlocked(ks) == ks.mnemonic # Null \/ ks.viewOnly

\* getMnemonic: the mnemonic, and the keystore with the timer reset if there is one
getMnemonic(ks) ==
    [mnemonic |-> ks.mnemonic, ks |-> IF ks.mnemonic # Null THEN resetLockTimer(ks) ELSE ks]

\* derivePrivateKey (cosmos.ts): the key on the Gonka path
derivePrivateKey(mn) == PrivateKey(mn, GONKA_COIN_TYPE)

\* exportPrivateKeyHex
exportPrivateKeyHex(ks) ==
    IF ks.mnemonic = Null THEN [ok |-> FALSE, error |-> "Wallet is locked", privateKey |-> NoKey]
    ELSE [ok |-> TRUE, error |-> "", privateKey |-> derivePrivateKey(ks.mnemonic)]

-----------------------------------------------------------------------------
(* provider-handler.ts                                                      *)

Error(message) == [kind |-> "error", error |-> message]

Result(value) == [kind |-> "result", result |-> value]

Rejected == Error("User rejected the request")

\* _suggestedChains.get(chainId), or none
suggestedInfo(chainId) == {info \in suggestedChains : info.chainId = chainId}

getBech32Prefix(chainId) ==
    IF chainId = GONKA_CHAIN_ID THEN GONKA_BECH32_PREFIX
    ELSE IF suggestedInfo(chainId) # {}
         THEN (CHOOSE info \in suggestedInfo(chainId) : TRUE).bech32PrefixAccAddr
         ELSE GONKA_BECH32_PREFIX

\* getHdPaths: the coin type of the one path
getHdPaths(chainId) ==
    IF chainId = GONKA_CHAIN_ID THEN GONKA_COIN_TYPE
    ELSE IF suggestedInfo(chainId) # {}
         THEN (CHOOSE info \in suggestedInfo(chainId) : TRUE).coinType
         ELSE GONKA_COIN_TYPE

isSupportedChain(chainId) == chainId = GONKA_CHAIN_ID \/ suggestedInfo(chainId) # {}

\* getWalletForChain and getAccounts: the first account of the wallet made
\* from the mnemonic for the chain
accountFor(mn, chainId) == Bech32(mn, getBech32Prefix(chainId), getHdPaths(chainId))

derivePrivateKeyBytes(mn, chainId) == PrivateKey(mn, getHdPaths(chainId))

\* Secp256k1.createSignature over the hash of the document
createSignature(document, privKey) == [signedBy |-> privKey, document |-> document]

\* the site stored for an origin, or none
siteOf(sites, origin) == {s \in sites : s.origin = origin}

\* isOriginConnected that asks only whether the origin has an entry
isOriginConnected_anyChain(sites, origin, chainIds) == siteOf(sites, origin) # {}

isOriginConnected(sites, origin, chainIds) ==
    /\ siteOf(sites, origin) # {}
    /\ \A i \in DOMAIN chainIds :
           chainIds[i] \in (CHOOSE s \in siteOf(sites, origin) : TRUE).chainIds

addConnectedSite(sites, origin, chainIds) ==
    IF siteOf(sites, origin) # {}
    THEN {IF s.origin = origin THEN [s EXCEPT !.chainIds = @ \cup Range(chainIds)] ELSE s :
              s \in sites}
    ELSE sites \cup {[origin |-> origin, chainIds |-> Range(chainIds)]}

disconnectSite(sites, origin) == {s \in sites : s.origin # origin}

\* origin || "unknown"
originOrUnknown(origin) == IF origin = "" THEN "unknown" ELSE origin

\* what an execute function gives back: the result for the dApp, whether a
\* operation took effect (a digest hashed and signed, a site stored), the
\* sites and the keystore it leaves
Outcome(reply, effect, sites, ks) ==
    [reply |-> reply, effect |-> effect, sites |-> sites, ks |-> ks]

executeEnable(ks, sites, params, origin) ==
    Outcome(Result(TRUE), origin # "",
            IF origin # "" THEN addConnectedSite(sites, origin, params.chainIds) ELSE sites, ks)

Mismatch(expected, got) ==
    [kind |-> "error", error |-> "Signer address mismatch", expected |-> expected, got |-> got]

\* executeSignAmino without the comparison of lines 517-519
executeSignAmino_unchecked(ks, sites, params) ==
    LET got == getMnemonic(ks)
        privKey == derivePrivateKeyBytes(got.mnemonic, params.chainId)
    IN IF ~isUnlocked(ks) THEN Outcome(Error("Wallet is locked"), FALSE, sites, ks)
       ELSE IF got.mnemonic = Null THEN Outcome(Error("Wallet is locked"), FALSE, sites, got.ks)
       ELSE Outcome(Result(createSignature(<<"amino", params.signer>>, privKey)),
                    TRUE, sites, got.ks)

executeSignAmino(ks, sites, params) ==
    LET got == getMnemonic(ks)
        account == accountFor(got.mnemonic, params.chainId)
        privKey == derivePrivateKeyBytes(got.mnemonic, params.chainId)
    IN IF ~isUnlocked(ks) THEN Outcome(Error("Wallet is locked"), FALSE, sites, ks)
       ELSE IF got.mnemonic = Null THEN Outcome(Error("Wallet is locked"), FALSE, sites, got.ks)
       ELSE IF account # params.signer
            THEN Outcome(Mismatch(account, params.signer), FALSE, sites, got.ks)
       ELSE Outcome(Result(createSignature(<<"amino", params.signer>>, privKey)),
                    TRUE, sites, got.ks)

executeSignDirect(ks, sites, params) ==
    LET got == getMnemonic(ks)
        account == accountFor(got.mnemonic, params.chainId)
        privKey == derivePrivateKeyBytes(got.mnemonic, params.chainId)
    IN IF ~isUnlocked(ks) THEN Outcome(Error("Wallet is locked"), FALSE, sites, ks)
       ELSE IF got.mnemonic = Null THEN Outcome(Error("Wallet is locked"), FALSE, sites, got.ks)
       ELSE IF account # params.signer
            THEN Outcome(Mismatch(account, params.signer), FALSE, sites, got.ks)
       ELSE Outcome(Result(createSignature(<<"direct", params.signer>>, privKey)),
                    TRUE, sites, got.ks)

\* executeSignArbitrary: the signer goes into the document, unchecked
executeSignArbitrary(ks, sites, params) ==
    LET got == getMnemonic(ks)
        privKey == derivePrivateKeyBytes(got.mnemonic, params.chainId)
    IN IF ~isUnlocked(ks) THEN Outcome(Error("Wallet is locked"), FALSE, sites, ks)
       ELSE IF got.mnemonic = Null THEN Outcome(Error("Wallet is locked"), FALSE, sites, got.ks)
       ELSE Outcome(Result(createSignature(<<"sign/MsgSignData", params.signer>>, privKey)),
                    TRUE, sites, got.ks)

\* the switch of approveRequest
execute(ks, sites, request) ==
    IF request.method = "enable"
    THEN executeEnable(ks, sites, request.params, originOrUnknown(request.origin))
    ELSE IF request.method = "signAmino" THEN executeSignAmino(ks, sites, request.params)
    ELSE IF request.method = "signDirect" THEN executeSignDirect(ks, sites, request.params)
    ELSE executeSignArbitrary(ks, sites, request.params)

\* a PROVIDER_REQUEST as it arrives: not waiting for an unlock, not pending
\* approval, unanswered
newCall(method, params, origin) ==
    [method |-> method, params |-> params, origin |-> origin, waiting |-> FALSE,
     pending |-> FALSE, requestId |-> 0, reply |-> NoReply]

\* a promise settles once
resolve(req, reply) == IF req.reply = NoReply THEN [req EXCEPT !.reply = reply] ELSE req

\* requestApproval: a fresh id, the entry in _pendingRequests, the window
requestApproval(req, counter) ==
    [call |-> [req EXCEPT !.waiting = FALSE, !.pending = TRUE, !.requestId = counter + 1],
     counter |-> counter + 1]

\* handleEnable and handleWithApproval from the unlock gate on
proceed(req, counter) ==
    IF req.method = "enable"
       /\ \E i \in DOMAIN req.params.chainIds : ~isSupportedChain(req.params.chainIds[i])
    THEN [call |-> resolve([req EXCEPT !.waiting = FALSE], Error("Chain is not supported")),
          counter |-> counter]
    ELSE requestApproval(req, counter)

\* handleProviderRequest for enable, signAmino, signDirect and signArbitrary
handleProviderRequest(ks, sites, req, counter) ==
    IF /\ req.method = "enable"
       /\ req.origin # ""
       /\ isOriginConnected(sites, req.origin, req.params.chainIds)
    THEN [call |-> resolve(req, Result(TRUE)), counter |-> counter]
    ELSE IF ~isUnlocked(ks)
    THEN [call |-> [req EXCEPT !.waiting = TRUE], counter |-> counter]
    ELSE proceed(req, counter)

\* notifyUnlocked: every waiter is resolved and its request goes on, in the
\* order the waiters were added
RECURSIVE notifyUnlocked(_, _, _)
notifyUnlocked(list, counter, i) ==
    IF i > Len(list) THEN [calls |-> list, counter |-> counter]
    ELSE IF list[i].waiting
    THEN LET next == proceed(list[i], counter)
         IN notifyUnlocked([list EXCEPT ![i] = next.call], next.counter, i + 1)
    ELSE notifyUnlocked(list, counter, i + 1)

\* the pending request with an id, as a set of call numbers
pendingWith(list, requestId) ==
    {c \in DOMAIN list : list[c].pending /\ list[c].requestId = requestId}

\* rejectRequest that answers the dApp and leaves the entry in _pendingRequests
rejectRequest_keepsPending(list, requestId) ==
    [c \in DOMAIN list |->
        IF c \in pendingWith(list, requestId) THEN resolve(list[c], Rejected) ELSE list[c]]

\* rejectRequest, and the onRemoved listener of requestApproval
rejectRequest(list, requestId) ==
    [c \in DOMAIN list |->
        IF c \in pendingWith(list, requestId)
        THEN resolve([list[c] EXCEPT !.pending = FALSE], Rejected)
        ELSE list[c]]

-----------------------------------------------------------------------------
(* The handlers.  Each message is handled in one step; a dApp request that  *)
(* has to wait for the user (an unlock, an approval) stays in calls until   *)
(* the message or event that ends the wait.                                 *)

Apply(ks) ==
    /\ mnemonic' = ks.mnemonic
    /\ password' = ks.password
    /\ address' = ks.address
    /\ activeIndex' = ks.activeIndex
    /\ viewOnly' = ks.viewOnly
    /\ lockTimer' = ks.lockTimer
    /\ timerLeft' = ks.timerLeft
    /\ autoLockMs' = ks.autoLockMs
    /\ idle' = ks.idle
    /\ wallets' = ks.wallets
    /\ storedActiveIndex' = ks.storedActiveIndex

keystoreVars ==
    <<mnemonic, password, address, activeIndex, viewOnly, lockTimer, timerLeft, autoLockMs,
      idle, wallets,
      storedActiveIndex>>

providerVars ==
    <<connectedSites, suggestedChains, calls, requestCounter, approvedIds, refusedIds,
      executedIds>>

Failure(message) == [success |-> FALSE, error |-> message]

Success == [success |-> TRUE]

\* CREATE_WALLET and ADD_WALLET
AddWalletMsg(type, mn, pwdGiven) ==
    /\ Len(wallets) < MaxWallets
    /\ LET ks == addWallet(touchActivity(Received), mn, pwdGiven)
       IN /\ Apply(ks)
          /\ lastMsg' = [type |-> type,
                         reply |-> IF ks.ok THEN [success |-> TRUE, address |-> ks.address,
                                                  index |-> ks.activeIndex]
                                   ELSE Failure(ks.error)]
          /\ sinceLock' = (sinceLock /\ ~ks.ok)
    /\ UNCHANGED <<providerVars, signerVars, contentVars, libraryVars>>

\* ADD_VIEW_ONLY_WALLET
AddViewOnlyWalletMsg(addr) ==
    /\ Len(wallets) < MaxWallets
    /\ LET ks == addViewOnlyWallet(touchActivity(Received), addr)
       IN /\ Apply(ks)
          /\ lastMsg' = [type |-> "ADD_VIEW_ONLY_WALLET",
                         reply |-> [success |-> TRUE, address |-> ks.address,
                                    index |-> ks.activeIndex]]
    /\ UNCHANGED <<sinceLock, providerVars, signerVars, contentVars, libraryVars>>

\* SWITCH_WALLET
SwitchWalletMsg(index) ==
    /\ LET ks == switchWallet(touchActivity(Received), index)
       IN /\ Apply(ks)
          /\ lastMsg' = [type |-> "SWITCH_WALLET",
                         reply |-> IF ks.ok THEN [success |-> TRUE, address |-> ks.address,
                                                  isViewOnly |-> ks.viewOnly]
                                   ELSE Failure(ks.error)]
    /\ UNCHANGED <<sinceLock, providerVars, signerVars, contentVars, libraryVars>>

\* REMOVE_WALLET
RemoveWalletMsg(index) ==
    /\ LET ks == removeWallet(touchActivity(Received), index)
       IN /\ Apply(ks)
          /\ lastMsg' = [type |-> "REMOVE_WALLET",
                         reply |-> IF ks.ok THEN [success |-> TRUE, address |-> ks.address,
                                                  activeIndex |-> ks.activeIndex]
                                   ELSE Failure(ks.error)]
    /\ UNCHANGED <<sinceLock, providerVars, signerVars, contentVars, libraryVars>>

\* UNLOCK: on success the waiting dApp requests go on
UnlockMsg(pwd) ==
    /\ LET ks == unlock(touchActivity(Received), pwd)
           resumed == notifyUnlocked(calls, requestCounter, 1)
       IN /\ Apply(ks)
          /\ lastMsg' = [type |-> "UNLOCK",
                         reply |-> IF ks.ok THEN [success |-> TRUE, address |-> ks.address,
                                                  isViewOnly |-> ks.viewOnly]
                                   ELSE Failure("Wrong password")]
          /\ sinceLock' = (sinceLock /\ ~ks.ok)
          /\ calls' = IF ks.ok THEN resumed.calls ELSE calls
          /\ requestCounter' = IF ks.ok THEN resumed.counter ELSE requestCounter
    /\ UNCHANGED <<connectedSites, suggestedChains, approvedIds, refusedIds, executedIds,
                   signerVars, contentVars, libraryVars>>

\* UNLOCK as background/index.ts handles it: unlock, broadcast, reply; the
\* waiting dApp requests are not told
UnlockMsgIndexTs(pwd) ==
    /\ LET ks == unlock(touchActivity(Received), pwd)
       IN /\ Apply(ks)
          /\ lastMsg' = [type |-> "UNLOCK",
                         reply |-> IF ks.ok THEN [success |-> TRUE, address |-> ks.address]
                                   ELSE Failure("Wrong password")]
          /\ sinceLock' = (sinceLock /\ ~ks.ok)
    /\ UNCHANGED <<providerVars, signerVars, contentVars, libraryVars>>

\* VERIFY_PASSWORD
VerifyPasswordMsg(pwd) ==
    /\ LET ks == unlock(touchActivity(Received), pwd)
       IN /\ Apply(ks)
          /\ lastMsg' = [type |-> "VERIFY_PASSWORD", reply |-> [success |-> ks.ok]]
          /\ sinceLock' = (sinceLock /\ ~ks.ok)
    /\ UNCHANGED <<providerVars, signerVars, contentVars, libraryVars>>

\* LOCK
LockMsg ==
    /\ Apply(lock(touchActivity(Received)))
    /\ lastMsg' = [type |-> "LOCK", reply |-> Success]
    /\ sinceLock' = TRUE
    /\ UNCHANGED <<providerVars, signerVars, contentVars, libraryVars>>

\* the time left on the timer armed by resetLockTimer passes with no message
\* handled, and the timer fires
LockTimerFires ==
    /\ lockTimer
    /\ Apply(lock([Keystore EXCEPT !.idle = @ + timerLeft]))
    /\ sinceLock' = TRUE
    /\ UNCHANGED <<lastMsg, providerVars, signerVars, contentVars, libraryVars>>

\* SET_AUTO_LOCK
SetAutoLockMsg(minutes) ==
    /\ Apply(setAutoLockTimeout(touchActivity(Received), minutes))
    /\ lastMsg' = [type |-> "SET_AUTO_LOCK", reply |-> Success]
    /\ UNCHANGED <<sinceLock, providerVars, signerVars, contentVars, libraryVars>>

\* a minute passes in which no message is handled and no timer fires
MinutePasses ==
    /\ idle < MaxIdleMinutes * MINUTE
    /\ lockTimer => timerLeft > MINUTE
    /\ idle' = idle + MINUTE
    /\ timerLeft' = IF lockTimer THEN timerLeft - MINUTE ELSE timerLeft
    /\ UNCHANGED <<mnemonic, password, address, activeIndex, viewOnly, lockTimer, autoLockMs,
                   wallets, storedActiveIndex, sinceLock, lastMsg, providerVars, signerVars,
                   contentVars, libraryVars>>

\* SEND_TOKENS, DELEGATE, UNDELEGATE, WITHDRAW_REWARDS, GET_MNEMONIC: each asks
\* getMnemonic and goes on only with a mnemonic
SecretMsg(type) ==
    /\ LET got == getMnemonic(touchActivity(Received))
       IN /\ Apply(got.ks)
          /\ lastMsg' = [type |-> type,
                         reply |-> IF got.mnemonic = Null THEN Failure("Wallet is locked")
                                   ELSE IF type = "GET_MNEMONIC"
                                   THEN [success |-> TRUE, mnemonic |-> got.mnemonic]
                                   ELSE [success |-> TRUE,
                                         signedBy |-> derivePrivateKey(got.mnemonic)]]
    /\ UNCHANGED <<sinceLock, providerVars, signerVars, contentVars, libraryVars>>

\* EXPORT_PRIVATE_KEY
ExportPrivateKeyMsg ==
    /\ LET ks == touchActivity(Received)
           exported == exportPrivateKeyHex(ks)
       IN /\ Apply(ks)
          /\ lastMsg' = [type |-> "EXPORT_PRIVATE_KEY",
                         reply |-> IF exported.ok
                                   THEN [success |-> TRUE, privateKey |-> exported.privateKey]
                                   ELSE Failure(exported.error)]
    /\ UNCHANGED <<sinceLock, providerVars, signerVars, contentVars, libraryVars>>

\* DISCONNECT_SITE
DisconnectSiteMsg(origin) ==
    /\ Apply(touchActivity(Received))
    /\ connectedSites' = disconnectSite(connectedSites, origin)
    /\ lastMsg' = [type |-> "DISCONNECT_SITE", origin |-> origin, reply |-> Success]
    /\ UNCHANGED <<sinceLock, suggestedChains, calls, requestCounter, approvedIds,
                   refusedIds, executedIds, signerVars, contentVars, libraryVars>>

\* PROVIDER_REQUEST with experimentalSuggestChain
SuggestChain(chainInfo) ==
    /\ Apply(touchActivity(Received))
    /\ suggestedChains' = {info \in suggestedChains : info.chainId # chainInfo.chainId}
                              \cup {chainInfo}
    /\ UNCHANGED <<sinceLock, lastMsg, connectedSites, calls, requestCounter, approvedIds,
                   refusedIds, executedIds, signerVars, contentVars, libraryVars>>

\* PROVIDER_REQUEST with enable, signAmino, signDirect or signArbitrary
ProviderRequest(method, params, origin) ==
    /\ Len(calls) < MaxCalls
    /\ LET ks == touchActivity(Received)
           handled == handleProviderRequest(ks, connectedSites,
                                            newCall(method, params, origin), requestCounter)
       IN /\ Apply(ks)
          /\ calls' = Append(calls, handled.call)
          /\ requestCounter' = handled.counter
    /\ UNCHANGED <<sinceLock, lastMsg, connectedSites, suggestedChains, approvedIds,
                   refusedIds, executedIds, signerVars, contentVars, libraryVars>>

\* APPROVE_REQUEST
ApproveRequest(requestId) ==
    LET ks == touchActivity(Received)
        found == pendingWith(calls, requestId)
    IN IF found = {}
       THEN /\ Apply(ks)
            /\ lastMsg' = [type |-> "APPROVE_REQUEST",
                           reply |-> Error("Request not found or expired")]
            /\ UNCHANGED <<sinceLock, providerVars, signerVars, contentVars, libraryVars>>
       ELSE LET c == CHOOSE n \in found : TRUE
                out == execute(ks, connectedSites, calls[c])
            IN /\ Apply(out.ks)
               /\ calls' = [calls EXCEPT ![c] = resolve([@ EXCEPT !.pending = FALSE], out.reply)]
               /\ connectedSites' = out.sites
               /\ approvedIds' = approvedIds \cup {requestId}
               /\ executedIds' = IF out.effect THEN executedIds \cup {requestId}
                                 ELSE executedIds
               /\ lastMsg' = [type |-> "APPROVE_REQUEST", reply |-> out.reply]
               /\ UNCHANGED <<sinceLock, suggestedChains, requestCounter, refusedIds,
                              signerVars, contentVars, libraryVars>>

\* REJECT_REQUEST
RejectRequest(requestId) ==
    /\ Apply(touchActivity(Received))
    /\ calls' = rejectRequest(calls, requestId)
    /\ refusedIds' = IF pendingWith(calls, requestId) # {} THEN refusedIds \cup {requestId}
                     ELSE refusedIds
    /\ lastMsg' = [type |-> "REJECT_REQUEST",
                   reply |-> IF pendingWith(calls, requestId) # {} THEN Result(TRUE)
                             ELSE Error("Request not found or expired")]
    /\ UNCHANGED <<sinceLock, connectedSites, suggestedChains, requestCounter, approvedIds,
                   executedIds, signerVars, contentVars, libraryVars>>

\* the user closes the approval window of a pending request
WindowClosed(requestId) ==
    /\ pendingWith(calls, requestId) # {}
    /\ calls' = rejectRequest(calls, requestId)
    /\ refusedIds' = refusedIds \cup {requestId}
    /\ UNCHANGED <<keystoreVars, sinceLock, lastMsg, connectedSites, suggestedChains,
                   requestCounter, approvedIds, executedIds, signerVars, contentVars, libraryVars>>

\* chrome.windows.create gives no window for a pending request
WindowOpenFailed(requestId) ==
    /\ pendingWith(calls, requestId) # {}
    /\ calls' = [c \in DOMAIN calls |->
                    IF c \in pendingWith(calls, requestId)
                    THEN resolve([calls[c] EXCEPT !.pending = FALSE],
                                 Error("Failed to open approval window"))
                    ELSE calls[c]]
    /\ UNCHANGED <<keystoreVars, sinceLock, lastMsg, connectedSites, suggestedChains,
                   requestCounter, approvedIds, refusedIds, executedIds, signerVars, contentVars, libraryVars>>

\* the five-minute timer of requestUnlock fires for a waiting request
UnlockTimedOut(c) ==
    /\ c \in DOMAIN calls
    /\ calls[c].waiting
    /\ calls' = [calls EXCEPT ![c] = resolve([@ EXCEPT !.waiting = FALSE],
                                  Error("Wallet is locked. Please unlock GG Wallet first."))]
    /\ UNCHANGED <<keystoreVars, sinceLock, lastMsg, connectedSites, suggestedChains,
                   requestCounter, approvedIds, refusedIds, executedIds, signerVars, contentVars, libraryVars>>

EnableParams == {[chainIds |-> ids] : ids \in ChainIdLists}

SignParams == {[chainId |-> id, signer |-> signer] : id \in ChainIds, signer \in SignerInputs}

\* the sign request of the dApp of the first specification
OwnSignParams == [chainId |-> GONKA_CHAIN_ID, signer |-> deriveAddress("m1")]

-----------------------------------------------------------------------------
(* dApp requests: one wallet, created, locked and unlocked; sites that ask  *)
(* to connect and to sign, a user who approves, rejects or closes windows.  *)

Next ==
    \/ AddWalletMsg("CREATE_WALLET", "m1", "p1")
    \/ \E pwd \in Passwords : UnlockMsg(pwd)
    \/ LockMsg
    \/ LockTimerFires
    \/ \E origin \in DAppOrigins : DisconnectSiteMsg(originOrUnknown(origin))
    \/ \E chainInfo \in SuggestableChains : SuggestChain(chainInfo)
    \/ \E params \in EnableParams, origin \in DAppOrigins :
           ProviderRequest("enable", params, origin)
    \/ \E method \in SignMethods : ProviderRequest(method, OwnSignParams, "https://dapp")
    \/ \E requestId \in 1..MaxCalls : ApproveRequest(requestId)
    \/ \E requestId \in 1..MaxCalls : RejectRequest(requestId)
    \/ \E requestId \in 1..MaxCalls : WindowClosed(requestId)
    \/ \E requestId \in 1..MaxCalls : WindowOpenFailed(requestId)
    \/ \E c \in 1..MaxCalls : UnlockTimedOut(c)

Spec == InitSigner /\ [][Next]_vars

-----------------------------------------------------------------------------
(* The keystore: wallets added, watched, switched, removed, locked and      *)
(* unlocked; the messages that ask for the secret; one signing request of   *)
(* a dApp across all of it.                                                 *)

MaxSignCalls == 1

NextKeys ==
    \/ \E type \in {"CREATE_WALLET", "ADD_WALLET"}, mn \in Mnemonics,
          pwdGiven \in {"p1", Null} : AddWalletMsg(type, mn, pwdGiven)
    \/ AddViewOnlyWalletMsg(WatchedAddress)
    \/ \E index \in 0..MaxWallets : SwitchWalletMsg(index)
    \/ \E index \in 0..MaxWallets : RemoveWalletMsg(index)
    \/ \E pwd \in Passwords : UnlockMsg(pwd)
    \/ \E pwd \in Passwords : VerifyPasswordMsg(pwd)
    \/ LockMsg
    \/ LockTimerFires
    \/ \E type \in SecretMessages : SecretMsg(type)
    \/ ExportPrivateKeyMsg
    \/ \E chainInfo \in SuggestableChains : SuggestChain(chainInfo)
    \/ \E method \in SignMethods, params \in SignParams :
           /\ Len(calls) < MaxSignCalls
           /\ ProviderRequest(method, params, "https://dapp")
    \/ \E requestId \in 1..MaxSignCalls : ApproveRequest(requestId)
    \/ \E requestId \in 1..MaxSignCalls : RejectRequest(requestId)
    \/ \E c \in 1..MaxSignCalls : UnlockTimedOut(c)

SpecKeys == InitSigner /\ [][NextKeys]_vars

-----------------------------------------------------------------------------
(* Properties                                                               *)

\* C2: sign throws for every privateKeyHex that, one leading "0x" removed, is
\* not exactly 2 * KEY_BYTES hexadecimal characters; it never goes on to hash
\* or sign with a key obtained by truncating, padding or zero-filling.
C2_MalformedKeyThrows ==
    (pc # "idle" /\ ~WellFormedKey(call.privateKeyHex)) => pc = "threw"

\* C3: the s encoded in the second half of the signature sign returns is at
\* most floor(CURVE_ORDER / 2).
C3_LowS ==
    (pc = "done" /\ ret.kind = "ok") => EncodedS(ret.signature) <= HALF_ORDER

\* a valid key whose engine result had s > HALF_ORDER, returned
C3_Witness ==
    /\ pc = "done"
    /\ ValidScalar(D)
    /\ WellFormedKey(call.privateKeyHex)
    /\ rs.s > HALF_ORDER
    /\ EncodedS(ret.signature) = CURVE_ORDER - rs.s

\* C4: what rfc6979Sign returns, and what sign encodes after normalisation,
\* has 0 < r < CURVE_ORDER and 0 < s < CURVE_ORDER; a candidate with r = 0 or
\* s = 0 only sends the loop round again.
C4_Range ==
    /\ pc \in {"signed", "done"} =>
          /\ 0 < rs.r /\ rs.r < CURVE_ORDER
          /\ 0 < rs.s /\ rs.s < CURVE_ORDER
    /\ pc = "done" =>
          /\ 0 < EncodedR(ret.signature) /\ EncodedR(ret.signature) < CURVE_ORDER
          /\ 0 < EncodedS(ret.signature) /\ EncodedS(ret.signature) < CURVE_ORDER
    /\ (pc = "loop" /\ lastRetry \in {"r0", "s0"}) => rs = NoResult

\* a run that met a degenerate candidate and went on to return a signature
C4_Witness == pc = "done" /\ lastRetry \in {"r0", "s0"} /\ rs.r > 0 /\ rs.s > 0

\* C5: the (r, s) of the engine, s normalised, passes ECDSA verification of
\* the digest against D.G.
C5_Verifies ==
    (pc = "done" /\ ValidScalar(D)) =>
        Verifies(D, bytesToBigInt(msgHash), EncodedR(ret.signature), EncodedS(ret.signature))

\* C6: a later run of the engine on the same (D, digest) returns what the
\* first run returned, whatever the earlier run left in K and V and whatever
\* the clock shows.
C6_Deterministic ==
    (pc = "signed" /\ runs >= 1) => rs = first

\* a second run has returned, begun with K, V other than the initial ones
\* and at a later clock reading
C6_Witness == pc = "signed" /\ runs >= 1 /\ now > 1 /\ first # NoResult

\* C7: the clock is read once; timestampNs is that reading times 1,000,000,
\* it is the timestamp returned, and the digest signed is SHA256 of
\* hex(SHA256(payload)) || decimal(timestampNs) || transferAddress.
C7_TimestampAndDigest ==
    pc \in {"loop", "signed", "done"} =>
        /\ Len(readings) = 1
        /\ timestampNs = readings[1] * 1000000
        /\ msgHash = sha256(TextEncode(bytesToHex(sha256(call.payload))
                                        \o DecimalString(timestampNs)
                                        \o call.transferAddress))
        /\ pc = "done" => ret.timestampNs = readings[1] * 1000000

\* sign returned after the clock had moved on from the reading it took
C7_Witness ==
    /\ pc = "done"
    /\ now > readings[1]
    /\ ret.timestampNs = readings[1] * 1000000
    /\ call.payload # <<>>

\* the requests of a kind that have been approved
approvedCalls == {c \in DOMAIN calls : calls[c].requestId \in approvedIds}

\* the step appends a dApp request; the request as the step leaves it
Arrives == Len(calls') = Len(calls) + 1

Arrived == calls'[Len(calls')]

\* the step is the handling of APPROVE_REQUEST for the pending request c
Approves(c) ==
    /\ c \in DOMAIN calls
    /\ calls[c].pending
    /\ calls[c].requestId \notin approvedIds
    /\ calls[c].requestId \in approvedIds'

\* C1: an approved signAmino or signDirect whose params.signer is not the
\* address of the account the in-memory mnemonic gives for params.chainId is
\* answered with the error "Signer address mismatch"; nothing is hashed or
\* signed for it and no signature is returned.
C1_SignerMismatchRejected ==
    [][\A c \in 1..MaxCalls :
          (/\ Approves(c)
           /\ calls[c].method \in {"signAmino", "signDirect"}
           /\ mnemonic # Null
           /\ accountFor(mnemonic, calls[c].params.chainId) # calls[c].params.signer)
          => /\ calls'[c].reply.kind = "error"
             /\ calls'[c].reply.error = "Signer address mismatch"
             /\ calls[c].requestId \notin executedIds']_vars

\* an approved signDirect answered with the mismatch error
C1_Witness ==
    \E c \in approvedCalls :
        /\ calls[c].method = "signDirect"
        /\ calls[c].reply.kind = "error"
        /\ calls[c].reply.error = "Signer address mismatch"
        /\ calls[c].requestId \notin executedIds

\* C8: a signature is produced, or an origin stored among the connected
\* sites, only by the handling of an APPROVE_REQUEST with the request's id; a
\* request rejected, or whose window was closed, is answered "User rejected
\* the request" and never takes effect.
C8_ApprovalGating ==
    /\ executedIds \subseteq approvedIds
    /\ \A c \in DOMAIN calls :
          /\ (calls[c].method \in SignMethods /\ calls[c].reply.kind = "result")
                => calls[c].requestId \in approvedIds
          /\ calls[c].requestId \in refusedIds
                => /\ calls[c].reply = Rejected
                   /\ calls[c].requestId \notin approvedIds
                   /\ calls[c].requestId \notin executedIds
    /\ \A site \in connectedSites : \A id \in site.chainIds :
          \E c \in approvedCalls :
              /\ calls[c].method = "enable"
              /\ originOrUnknown(calls[c].origin) = site.origin
              /\ id \in Range(calls[c].params.chainIds)

\* one request rejected and answered so, another approved and signed
C8_Witness ==
    \E c1, c2 \in DOMAIN calls :
        /\ calls[c1].requestId \in refusedIds
        /\ calls[c1].reply = Rejected
        /\ calls[c2].method \in SignMethods
        /\ calls[c2].requestId \in executedIds
        /\ calls[c2].reply.kind = "result"

\* C9: lock leaves no mnemonic, no password and isUnlocked false; from then
\* until an unlock or addWallet succeeds, mnemonic and password stay null,
\* every message that needs the secret is answered "Wallet is locked", and an
\* approved signing request is answered "Wallet is locked" with nothing signed.
C9_LockedUntilUnlock ==
    /\ [](sinceLock => (mnemonic = Null /\ password = Null))
    /\ [][(LockMsg \/ LockTimerFires)
             => (mnemonic' = Null /\ password' = Null /\ ~viewOnly')]_vars
    /\ [][(sinceLock /\ ((\E type \in SecretMessages : SecretMsg(type)) \/ ExportPrivateKeyMsg))
             => lastMsg'.reply = Failure("Wallet is locked")]_vars
    /\ [][\A c \in 1..MaxCalls :
             (sinceLock /\ Approves(c) /\ calls[c].method \in SignMethods)
             => /\ calls'[c].reply = Error("Wallet is locked")
                /\ calls[c].requestId \notin executedIds']_vars

\* locked, then a watched wallet made active so that isUnlocked is true: a
\* request submitted before the lock is approved and refused, and
\* GET_MNEMONIC is refused
C9_Witness ==
    /\ sinceLock
    /\ viewOnly
    /\ lastMsg.type = "GET_MNEMONIC"
    /\ lastMsg.reply = Failure("Wallet is locked")
    /\ \E c \in approvedCalls :
          /\ calls[c].method = "signAmino"
          /\ calls[c].reply = Error("Wallet is locked")

\* C10: an enable is answered true at once, with no unlock and no approval,
\* only when the stored sites hold an entry for its origin that has every
\* chain id asked for; an entry holds only chain ids of approved enables from
\* its origin; DISCONNECT_SITE leaves no entry for the origin, and the next
\* enable from it is not answered at once.
C10_AutoApproveOnlyConnected ==
    /\ [][(Arrives /\ Arrived.method = "enable" /\ Arrived.reply = Result(TRUE))
             => \E site \in connectedSites :
                    /\ site.origin = Arrived.origin
                    /\ Range(Arrived.params.chainIds) \subseteq site.chainIds]_vars
    /\ [](\A site \in connectedSites : \A id \in site.chainIds :
              \E c \in approvedCalls :
                  /\ calls[c].method = "enable"
                  /\ originOrUnknown(calls[c].origin) = site.origin
                  /\ id \in Range(calls[c].params.chainIds))
    /\ [](lastMsg.type = "DISCONNECT_SITE" => siteOf(connectedSites, lastMsg.origin) = {})
    /\ [][(/\ lastMsg.type = "DISCONNECT_SITE"
           /\ Arrives
           /\ Arrived.method = "enable"
           /\ originOrUnknown(Arrived.origin) = lastMsg.origin)
             => (Arrived.pending \/ Arrived.waiting \/ Arrived.reply.kind = "error")]_vars

\* an enable approved, and a later enable from the same origin answered at
\* once while the wallet is locked
C10_Witness ==
    /\ ~isUnlocked(Keystore)
    /\ lastMsg.type = "LOCK"
    /\ \E c1, c2 \in DOMAIN calls :
          /\ c1 < c2
          /\ calls[c1].method = "enable" /\ calls[c2].method = "enable"
          /\ calls[c1].origin = calls[c2].origin
          /\ calls[c1].requestId \in executedIds
          /\ calls[c2].requestId = 0
          /\ calls[c2].reply = Result(TRUE)

-----------------------------------------------------------------------------
(* The auto-lock timer, with time: minutes pass, messages arrive, the user  *)
(* changes the setting.                                                     *)

NextTimer ==
    \/ AddWalletMsg("CREATE_WALLET", "m1", "p1")
    \/ AddViewOnlyWalletMsg(WatchedAddress)
    \/ \E index \in 0..(MaxWallets - 1) : SwitchWalletMsg(index)
    \/ \E pwd \in Passwords : UnlockMsg(pwd)
    \/ LockMsg
    \/ SecretMsg("GET_MNEMONIC")
    \/ \E minutes \in AutoLockChoices : SetAutoLockMsg(minutes)
    \/ MinutePasses
    \/ LockTimerFires

SpecTimer == InitSigner /\ [][NextTimer]_vars

DefaultSetting == autoLockMs = DEFAULT_AUTO_LOCK_MINUTES * MINUTE

\* C11: with the setting at 5 minutes an unlocked wallet always has an armed
\* timer with at most 5 minutes left; a message handled with a mnemonic in
\* memory leaves the timer at the full 5 minutes unless the message locks the
\* wallet; a wallet that has seen no message for 5 minutes is locked; with
\* the setting at 0 no timer is armed.
C11_AutoLock ==
    /\ []((DefaultSetting /\ isUnlocked(Keystore))
            => (lockTimer /\ timerLeft \in 1..autoLockMs))
    /\ [][(idle' = 0 /\ mnemonic # Null /\ DefaultSetting /\ DefaultSetting')
            => ((lockTimer' /\ timerLeft' = autoLockMs') \/ ~isUnlocked(Keystore)')]_vars
    /\ []((DefaultSetting /\ idle >= autoLockMs) => ~isUnlocked(Keystore))
    /\ [](autoLockMs = 0 => ~lockTimer)

\* five minutes without a message after an unlock: the timer has fired and
\* the wallet is locked
C11_Witness ==
    /\ DefaultSetting
    /\ idle = autoLockMs
    /\ wallets # <<>>
    /\ sinceLock
    /\ lastMsg.type = "GET_MNEMONIC"
    /\ lastMsg.reply.success
    /\ mnemonic = Null

-----------------------------------------------------------------------------
(* Requests that arrive while the wallet is locked, with the UNLOCK handler *)
(* of background/index.ts.                                                  *)

NextUnlock ==
    \/ AddWalletMsg("CREATE_WALLET", "m1", "p1")
    \/ \E pwd \in Passwords : UnlockMsgIndexTs(pwd)
    \/ LockMsg
    \/ LockTimerFires
    \/ \E params \in EnableParams : ProviderRequest("enable", params, "https://dapp")
    \/ \E method \in SignMethods : ProviderRequest(method, OwnSignParams, "https://dapp")
    \/ \E requestId \in 1..MaxCalls : ApproveRequest(requestId)
    \/ \E requestId \in 1..MaxCalls : RejectRequest(requestId)
    \/ \E c \in 1..MaxCalls : UnlockTimedOut(c)

SpecUnlock == InitSigner /\ [][NextUnlock]_vars

\* the step handles an UNLOCK message
UnlockHandled == \E pwd \in Passwords : UnlockMsg(pwd) \/ UnlockMsgIndexTs(pwd)

TimedOut == Error("Wallet is locked. Please unlock GG Wallet first.")

\* the request went on past the unlock gate: it is pending approval, or was,
\* or was refused for its chain
WentOn(request) ==
    ~request.waiting /\ (request.requestId # 0 \/ request.reply = Error("Chain is not supported"))

\* C12: a successful UNLOCK leaves no request waiting, every request that
\* waited goes on; an UNLOCK with a wrong password leaves the waiting requests
\* waiting; a request that stops waiting never waits again and either went on
\* or has the answer "Wallet is locked. Please unlock GG Wallet first.", never
\* both; an answer once given does not change.
C12_WaitersSettledOnce ==
    /\ [][(UnlockHandled /\ lastMsg'.reply.success)
            => \A c \in DOMAIN calls : calls[c].waiting => WentOn(calls'[c])]_vars
    /\ [][(UnlockHandled /\ ~lastMsg'.reply.success) => calls' = calls]_vars
    /\ [][\A c \in DOMAIN calls :
            /\ ~calls[c].waiting => ~calls'[c].waiting
            /\ calls[c].reply # NoReply => calls'[c].reply = calls[c].reply
            /\ (calls[c].waiting /\ ~calls'[c].waiting)
                  => (WentOn(calls'[c]) /\ calls'[c].reply # TimedOut)
                     \/ (~WentOn(calls'[c]) /\ calls'[c].reply = TimedOut)]_vars

\* the wallet has been unlocked and a request is still waiting
C12_StillWaiting ==
    \E c \in DOMAIN calls : calls[c].waiting /\ mnemonic # Null /\ lastMsg.type = "UNLOCK"

-----------------------------------------------------------------------------
(* provider/content.ts: the bridge between the page and the background.     *)
(* Strings whose characters matter are sequences of characters.             *)

MaxPageRequests == 2

MaxKeystoreChanges == 2

UpperCase == SubSeq(Base64Chars, 1, 26)

\* String.prototype.toLowerCase, on ASCII
toLowerCase(str) ==
    [i \in 1..Len(str) |->
        IF IndexOf(str[i], UpperCase) > 0 THEN LowerCase[IndexOf(str[i], UpperCase)]
        ELSE str[i]]

\* String.prototype.includes
includes(str, searchString) ==
    \E i \in 1..(Len(str) - Len(searchString) + 1) :
        SubSeq(str, i, i + Len(searchString) - 1) = searchString

isLockedError(error) == includes(toLowerCase(error), <<"l", "o", "c", "k", "e", "d">>)

\* the error texts of the background's replies
WalletIsLocked ==
    <<"W", "a", "l", "l", "e", "t", " ", "i", "s", " ", "l", "o", "c", "k",
      "e", "d">>

PleaseUnlock ==
    <<"W", "a", "l", "l", "e", "t", " ", "i", "s", " ", "l", "o", "c", "k",
      "e", "d", ".", " ", "P", "l", "e", "a", "s", "e", " ", "u", "n", "l",
      "o", "c", "k", " ", "G", "G", " ", "W", "a", "l", "l", "e", "t", " ",
      "f", "i", "r", "s", "t", ".">>

UserRejected ==
    <<"U", "s", "e", "r", " ", "r", "e", "j", "e", "c", "t", "e", "d", " ",
      "t", "h", "e", " ", "r", "e", "q", "u", "e", "s", "t">>

\* a reply of the background to PROVIDER_REQUEST; the empty string stands for
\* an absent error, which is as falsy as it
Reply(error, result) == [error |-> error, result |-> result]

BackgroundReplies ==
    {Reply(<<>>, "result"), Reply(<<>>, "undefined"), Reply(WalletIsLocked, "undefined"),
     Reply(PleaseUnlock, "undefined"), Reply(UserRejected, "undefined")}

\* the messages a rejected chrome.runtime.sendMessage carries
SendFailures == {UserRejected, WalletIsLocked}

PageMethods == {"enable", "signAmino"}

\* the handlers of the background that broadcast KEYSTORE_CHANGED
KeystoreChangeCauses == {"UNLOCK", "LOCK", "SWITCH_WALLET"}

\* the message window.postMessage is given
replyToPage(id, response) ==
    IF response.error # <<>>
    THEN [id |-> id, error |-> response.error, result |-> "undefined"]
    ELSE [id |-> id, error |-> <<>>, result |-> response.result]

sendToBackground(id, method, retry) == [id |-> id, method |-> method, retry |-> retry]

QueuedRequest(id, method) == [id |-> id, method |-> method]

\* Array.prototype.splice(start): the elements removed and the array left
spliceFrom_keeps(queue, start) ==
    [removed |-> SubSeq(queue, start + 1, Len(queue)), left |-> queue]

spliceFrom(queue, start) ==
    [removed |-> SubSeq(queue, start + 1, Len(queue)), left |-> SubSeq(queue, 1, start)]

ContentUnchanged == UNCHANGED <<signerVars, walletVars, libraryVars>>

\* the page posts a request: the "message" listener up to its await
PageRequest(method) ==
    /\ Len(requests) < MaxPageRequests
    /\ LET id == Len(requests) + 1 IN
        /\ requests' = Append(requests, [method |-> method, sent |-> 1, replies |-> <<>>,
                                         responses |-> <<>>])
        /\ inFlight' = inFlight \cup {sendToBackground(id, method, FALSE)}
    /\ UNCHANGED <<lockedQueue, keystoreChanges>>
    /\ ContentUnchanged

settled(send, response, posted) ==
    [requests EXCEPT ![send.id].responses = Append(@, response),
                     ![send.id].replies = @ \o posted]

\* the background answers: the "message" listener after its await, or the
\* then() of a retry
Response(send, response) ==
    /\ send \in inFlight
    /\ inFlight' = inFlight \ {send}
    /\ IF ~send.retry /\ response.error # <<>> /\ isLockedError(response.error)
       THEN /\ lockedQueue' = Append(lockedQueue, QueuedRequest(send.id, send.method))
            /\ requests' = settled(send, response, <<>>)
       ELSE /\ requests' = settled(send, response, <<replyToPage(send.id, response)>>)
            /\ UNCHANGED lockedQueue
    /\ UNCHANGED keystoreChanges
    /\ ContentUnchanged

\* chrome.runtime.sendMessage rejects: the listener's catch, or the catch()
\* of a retry
SendFailed(send, message) ==
    /\ send \in inFlight
    /\ inFlight' = inFlight \ {send}
    /\ requests' = settled(send, [thrown |-> message],
                           <<[id |-> send.id, error |-> message, result |-> "undefined"]>>)
    /\ UNCHANGED <<lockedQueue, keystoreChanges>>
    /\ ContentUnchanged

RECURSIVE resent(_, _)
resent(reqs, queued) ==
    IF queued = <<>> THEN reqs
    ELSE resent([reqs EXCEPT ![Head(queued).id].sent = @ + 1], Tail(queued))

\* the background broadcasts KEYSTORE_CHANGED: the onMessage listener
KeystoreChanged(cause) ==
    /\ keystoreChanges < MaxKeystoreChanges
    /\ keystoreChanges' = keystoreChanges + 1
    /\ LET spliced == spliceFrom(lockedQueue, 0) IN
        /\ lockedQueue' = spliced.left
        /\ requests' = resent(requests, spliced.removed)
        /\ inFlight' = inFlight \cup
              {sendToBackground(req.id, req.method, TRUE) : req \in Range(spliced.removed)}
    /\ ContentUnchanged

NextContent ==
    \/ \E method \in PageMethods : PageRequest(method)
    \/ \E send \in inFlight, response \in BackgroundReplies : Response(send, response)
    \/ \E send \in inFlight, message \in SendFailures : SendFailed(send, message)
    \/ \E cause \in KeystoreChangeCauses : KeystoreChanged(cause)

SpecContent == InitSigner /\ [][NextContent]_vars

queuedIds == {lockedQueue[k].id : k \in DOMAIN lockedQueue}

lockedReply(response) ==
    "error" \in DOMAIN response /\ response.error # <<>> /\ isLockedError(response.error)

\* C13: a request whose first answer is an error containing "locked" is
\* queued and not answered; handling KEYSTORE_CHANGED empties the queue and
\* sends every queued request once more, once; the answer to the retry is
\* posted to the page whatever it is; no request is sent more than twice
\* and no id gets more than one reply.
C13_LockedQueue ==
    /\ [](\A id \in DOMAIN requests :
            LET req == requests[id] IN
            /\ Len(req.replies) <= 1
            /\ req.sent <= 2
            /\ Len(req.responses) <= req.sent
            /\ Cardinality({k \in DOMAIN lockedQueue : lockedQueue[k].id = id}) <= 1
            /\ id \in queuedIds
                  => /\ req.replies = <<>>
                     /\ req.sent = 1
                     /\ Len(req.responses) = 1
                     /\ lockedReply(req.responses[1])
            /\ (Len(req.responses) >= 1 /\ lockedReply(req.responses[1]))
                  => \/ id \in queuedIds
                     \/ req.sent = 2
            /\ (Len(req.responses) = 1 /\ ~lockedReply(req.responses[1]))
                  => req.sent = 1 /\ Len(req.replies) = 1
            /\ Len(req.responses) = 2
                  => /\ Len(req.replies) = 1
                     /\ "error" \in DOMAIN req.responses[2]
                           => req.replies[1] = replyToPage(id, req.responses[2]))
    /\ [][keystoreChanges' # keystoreChanges
            => /\ lockedQueue' = <<>>
               /\ \A id \in DOMAIN requests :
                     /\ id \in queuedIds
                           => /\ requests'[id].sent = requests[id].sent + 1
                              /\ sendToBackground(id, requests[id].method, TRUE) \in inFlight'
                     /\ id \notin queuedIds => requests'[id] = requests[id]]_vars

\* two requests were queued, a KEYSTORE_CHANGED sent both again, and the
\* retry of the first was answered "Wallet is locked", which the page got
C13_Witness ==
    /\ Len(requests) = 2
    /\ requests[1].sent = 2
    /\ requests[2].sent = 2
    /\ Len(requests[1].responses) = 2
    /\ requests[1].responses[2] = Reply(WalletIsLocked, "undefined")
    /\ requests[1].replies = <<[id |-> 1, error |-> WalletIsLocked, result |-> "undefined"]>>
    /\ lockedQueue = <<>>
    /\ keystoreChanges = 1

-----------------------------------------------------------------------------
(* The wallet list under the messages that add, open, switch and remove     *)
(* wallets, with either password given to CREATE_WALLET and ADD_WALLET.     *)

NextPasswords ==
    \/ \E type \in {"CREATE_WALLET", "ADD_WALLET"}, mn \in Mnemonics,
          pwdGiven \in Passwords \cup {Null} : AddWalletMsg(type, mn, pwdGiven)
    \/ \E index \in 0..(MaxWallets - 1) : SwitchWalletMsg(index)
    \/ \E index \in 0..(MaxWallets - 1) : RemoveWalletMsg(index)
    \/ \E pwd \in Passwords : UnlockMsg(pwd)
    \/ LockMsg

SpecPasswords == InitSigner /\ [][NextPasswords]_vars

regularEntries == {i \in DOMAIN wallets : ~wallets[i].viewOnly}

\* C14: a password that decrypts one stored regular wallet decrypts them
\* all, and SWITCH_WALLET to a regular wallet succeeds whenever a password is
\* in memory.
C14_OnePassword ==
    /\ [](\A pwd \in Passwords, i \in regularEntries, j \in regularEntries :
            decrypt(wallets[i].ciphertext, pwd).ok => decrypt(wallets[j].ciphertext, pwd).ok)
    /\ [][\A index \in 0..(MaxWallets - 1) :
            (/\ SwitchWalletMsg(index)
             /\ password # Null
             /\ index + 1 \in regularEntries) => lastMsg'.reply.success]_vars

\* the wallet was unlocked with the password of the active wallet, and
\* SWITCH_WALLET to the other wallet, stored under another password, failed
C14_SwitchFails ==
    /\ Len(wallets) = 2
    /\ wallets[1].ciphertext.key # wallets[2].ciphertext.key
    /\ sinceLock = FALSE
    /\ password = wallets[2].ciphertext.key
    /\ activeIndex = 1
    /\ lastMsg.type = "SWITCH_WALLET"
    /\ lastMsg.reply = Failure("decrypt failed")

-----------------------------------------------------------------------------
(* The wallet list under the messages that add and remove wallets.          *)

NextList ==
    \/ \E type \in {"CREATE_WALLET", "ADD_WALLET"}, mn \in Mnemonics,
          pwdGiven \in {"p1", Null} : AddWalletMsg(type, mn, pwdGiven)
    \/ AddViewOnlyWalletMsg(WatchedAddress)
    \/ \E index \in 0..MaxWallets : RemoveWalletMsg(index)
    \/ \E index \in 0..(MaxWallets - 1) : SwitchWalletMsg(index)
    \/ \E pwd \in Passwords : UnlockMsg(pwd)
    \/ LockMsg

SpecList == InitSigner /\ [][NextList]_vars

\* C15: a wallet list that is not empty stays not empty; REMOVE_WALLET on a
\* list of one wallet is answered "Cannot remove the last wallet" and
\* removeWallet leaves storage and the keystore's variables as it found them
\* (that is, as touchActivity left them at the start of the message).
C15_LastWalletStays ==
    /\ [][wallets # <<>> => wallets' # <<>>]_vars
    /\ [][((\E index \in 0..MaxWallets : RemoveWalletMsg(index)) /\ Len(wallets) = 1)
            => /\ lastMsg'.reply = Failure("Cannot remove the last wallet")
               /\ Apply(touchActivity(Received))]_vars

\* REMOVE_WALLET was refused for the only wallet, with the wallet unlocked
C15_Witness ==
    /\ Len(wallets) = 1
    /\ mnemonic # Null
    /\ lastMsg.type = "REMOVE_WALLET"
    /\ lastMsg.reply = Failure("Cannot remove the last wallet")

-----------------------------------------------------------------------------
(* UNLOCK and VERIFY_PASSWORD with a wrong password, while time passes.     *)

NextVerify ==
    \/ AddWalletMsg("CREATE_WALLET", "m1", "p1")
    \/ AddViewOnlyWalletMsg(WatchedAddress)
    \/ \E index \in 0..(MaxWallets - 1) : SwitchWalletMsg(index)
    \/ \E pwd \in Passwords : UnlockMsg(pwd)
    \/ \E pwd \in Passwords : VerifyPasswordMsg(pwd)
    \/ LockMsg
    \/ MinutePasses
    \/ LockTimerFires

SpecVerify == InitSigner /\ [][NextVerify]_vars

\* the entry whose ciphertext unlock hands to decrypt: the active entry, or
\* the first regular wallet when the active entry is view-only; 0 when none
checkedEntry ==
    IF wallets = <<>> THEN 0
    ELSE LET active == IF storedActiveIndex < Len(wallets) THEN storedActiveIndex + 1 ELSE 1
         IN IF wallets[active].viewOnly THEN findRegular(wallets, 1) ELSE active

\* the step handles UNLOCK or VERIFY_PASSWORD with a password that is not
\* the one the checked wallet was encrypted with
WrongPasswordStep ==
    \E pwd \in Passwords :
        /\ UnlockMsg(pwd) \/ VerifyPasswordMsg(pwd)
        /\ checkedEntry # 0
        /\ wallets[checkedEntry].ciphertext.key # pwd

\* C16 as stated: a wrong password is answered success: false and leaves
\* mnemonic, password, view-only flag, address, active index and lock timer
\* as they were.
C16_WrongPasswordChangesNothing ==
    [][WrongPasswordStep
        => /\ ~lastMsg'.reply.success
           /\ UNCHANGED <<mnemonic, password, viewOnly, address, activeIndex, lockTimer,
                          timerLeft>>]_vars

\* C16, amended: a wrong password is answered success: false and leaves
\* mnemonic, password, view-only flag, address and active index as they
\* were, so a locked wallet stays locked; the lock timer is left as
\* touchActivity sets it at the start of the message: re-armed with the full
\* auto-lock time when a mnemonic is in memory, untouched otherwise.
C16_WrongPasswordKeepsKeys ==
    [][WrongPasswordStep
        => /\ ~lastMsg'.reply.success
           /\ UNCHANGED <<mnemonic, password, viewOnly, address, activeIndex>>
           /\ lockTimer' = touchActivity(Received).lockTimer
           /\ timerLeft' = touchActivity(Received).timerLeft
           /\ mnemonic = Null => UNCHANGED <<lockTimer, timerLeft>>]_vars

\* VERIFY_PASSWORD with a wrong password was refused while the wallet was
\* unlocked, and the timer has its full time again
C16_Witness ==
    /\ lastMsg.type = "VERIFY_PASSWORD"
    /\ ~lastMsg.reply.success
    /\ wallets # <<>>
    /\ mnemonic # Null
    /\ idle = 0
    /\ timerLeft = autoLockMs

-----------------------------------------------------------------------------
(* lib/format.ts: amounts in ngonka shown in GNK. Strings are sequences of  *)
(* characters.                                                              *)

GONKA_DISPLAY_DENOM == <<"G", "N", "K">>

GONKA_DECIMALS == 9

RECURSIVE Power(_, _)
Power(base, exponent) == IF exponent = 0 THEN 1 ELSE base * Power(base, exponent - 1)

\* String.prototype.padStart with a one-character pad
padStart(str, targetLength, padString) ==
    IF Len(str) >= targetLength THEN str
    ELSE [i \in 1..(targetLength - Len(str)) |-> padString] \o str

\* str.replace(/0+$/, "")
RECURSIVE stripZeroes(_)
stripZeroes(str) ==
    IF str # <<>> /\ str[Len(str)] = "0" THEN stripZeroes(SubSeq(str, 1, Len(str) - 1))
    ELSE str

toDisplay(amount) ==
    LET raw == amount
        divisor == Power(10, GONKA_DECIMALS)
        whole == BigIntDiv(raw, divisor)
        frac == BigIntRem(raw, divisor)
        fracStr == stripZeroes(padStart(toStringRadix(frac, 10), GONKA_DECIMALS, "0"))
    IN IF frac = 0 THEN toStringRadix(whole, 10)
       ELSE toStringRadix(whole, 10) \o <<".">> \o fracStr

\* formatCompact has one parameter; what a caller passes second is dropped
formatCompact(amount, maxDecimals) == toDisplay(amount) \o <<" ">> \o GONKA_DISPLAY_DENOM

\* the amounts and the decimal places formatCompact is called with
Amounts ==
    {0, 1, 10, 123456789, 500000000, 1000000000, 1000000001, 1000100000, 1100000000,
     1123456789, 1230000000, 1500000000, 2000000000}

DecimalPlaces == {0, 2, 4, 6, GONKA_DECIMALS}

InitFormat ==
    /\ InitWallet
    /\ InitContent
    /\ SignerIdle
    /\ given \in {[fn |-> "formatCompact", amount |-> amount, maxDecimals |-> maxDecimals] :
                    amount \in Amounts, maxDecimals \in DecimalPlaces}
    /\ returned = NoLibraryCall

\* formatCompact(amount, maxDecimals) is called and returns
FormatCompact ==
    /\ given.fn = "formatCompact"
    /\ returned = NoLibraryCall
    /\ returned' = [fn |-> given.fn, value |-> formatCompact(given.amount, given.maxDecimals)]
    /\ UNCHANGED <<given, signerVars, walletVars, contentVars>>

NextFormat == FormatCompact

SpecFormat == InitFormat /\ [][NextFormat]_vars

\* the GNK value of an amount cut to maxDecimals fractional digits, trailing
\* zeroes stripped, no decimal point when no fractional digit is left
CutTo(amount, maxDecimals) ==
    LET whole == toStringRadix(amount \div Power(10, GONKA_DECIMALS), 10)
        digits == padStart(toStringRadix(amount % Power(10, GONKA_DECIMALS), 10),
                           GONKA_DECIMALS, "0")
        shown == stripZeroes(SubSeq(digits, 1, maxDecimals))
    IN IF shown = <<>> THEN whole ELSE whole \o <<".">> \o shown

\* C17: formatCompact(amount, maxDecimals) returns the GNK value cut to at
\* most maxDecimals fractional digits, without trailing zeroes, without a
\* decimal point for whole amounts, followed by " GNK".
C17_AtMostMaxDecimals ==
    returned # NoLibraryCall
        => returned.value = CutTo(given.amount, given.maxDecimals) \o <<" ", "G", "N", "K">>

\* formatCompact("1123456789", 4) has returned "1.123456789 GNK"
C17_AllDigitsShown ==
    /\ given = [fn |-> "formatCompact", amount |-> 1123456789, maxDecimals |-> 4]
    /\ returned # NoLibraryCall
    /\ returned.value = <<"1", ".", "1", "2", "3", "4", "5", "6", "7", "8", "9", " ", "G", "N", "K">>

-----------------------------------------------------------------------------
(* The curve arithmetic of lib/gonka-signer.ts, one call at a time.         *)

\* the library is idle but for the call whose arguments are drawn
InitCall(callSet) ==
    /\ InitWallet
    /\ InitContent
    /\ SignerIdle
    /\ given \in callSet
    /\ returned = NoLibraryCall

Returns(fn, value) ==
    /\ given.fn = fn
    /\ returned = NoLibraryCall
    /\ returned' = [fn |-> fn, value |-> value]
    /\ UNCHANGED <<given, signerVars, walletVars, contentVars>>

\* what modInverse is called with: pointAdd passes 2 * y1 and x2 - x1 with
\* coordinates in [0, P), rfc6979Sign passes k in [1, CURVE_ORDER)
InverseCalls ==
    {[fn |-> "modInverse", a |-> a, m |-> P] :
        a \in {d \in (1 - P)..(2 * (P - 1)) : d % P # 0}}
    \cup {[fn |-> "modInverse", a |-> a, m |-> CURVE_ORDER] : a \in 1..(CURVE_ORDER - 1)}

ModInverse == Returns("modInverse", modInverse(given.a, given.m))

NextInverse == ModInverse

SpecInverse == InitCall(InverseCalls) /\ [][NextInverse]_vars

\* C18: modInverse(a, m) is the x in [0, m) with a.x = 1 (mod m), for every
\* argument its callers pass.
C18_Inverse ==
    (returned # NoLibraryCall /\ given.fn = "modInverse")
        => /\ returned.value \in 0..(given.m - 1)
           /\ mod(given.a * returned.value, given.m) = 1

\* modInverse(-1, P) has returned 1
C18_NegatedInverse ==
    /\ given = [fn |-> "modInverse", a |-> 0 - 1, m |-> P]
    /\ returned # NoLibraryCall
    /\ returned.value = 1

\* the points of the curve, and the identity
CurvePoints == {pt \in [x : 0..(P - 1), y : 0..(P - 1)] : OnCurve(pt)}

PointAddCalls ==
    {[fn |-> "pointAdd", p1 |-> p1, p2 |-> p2] :
        p1 \in CurvePoints \cup {POINT_AT_INFINITY},
        p2 \in CurvePoints \cup {POINT_AT_INFINITY}}

PointAdd == Returns("pointAdd", pointAdd(given.p1, given.p2))

NextPointAdd == PointAdd

SpecPointAdd == InitCall(PointAddCalls) /\ [][NextPointAdd]_vars

\* C19: for operands that are the identity or on the curve, pointAdd returns
\* the identity or a point on the curve, and it is the sum of the operands
\* in the group.
C19_GroupLaw ==
    (returned # NoLibraryCall /\ given.fn = "pointAdd")
        => /\ returned.value = POINT_AT_INFINITY \/ OnCurve(returned.value)
           /\ returned.value = GroupAdd(given.p1, given.p2)

\* pointAdd has returned a point off the curve for two points of the curve
\* with x2 < x1
C19_OffCurve ==
    /\ given.fn = "pointAdd"
    /\ given.p1 \in CurvePoints
    /\ given.p2 \in CurvePoints
    /\ given.p2.x < given.p1.x
    /\ returned # NoLibraryCall
    /\ ~OnCurve(returned.value)
    /\ returned.value # GroupAdd(given.p1, given.p2)

ScalarMultCalls == {[fn |-> "scalarMult", k |-> k, point |-> G] : k \in 1..(CURVE_ORDER - 1)}

ScalarMult == Returns("scalarMult", scalarMult(given.k, given.point))

NextScalarMult == ScalarMult

SpecScalarMult == InitCall(ScalarMultCalls) /\ [][NextScalarMult]_vars

\* C20: for 0 < k < N, scalarMult(k, G) is a point of the curve, not the
\* point at infinity, and it is k.G.
C20_ScalarMult ==
    (returned # NoLibraryCall /\ given.fn = "scalarMult")
        => /\ OnCurve(returned.value)
           /\ returned.value # POINT_AT_INFINITY
           /\ returned.value = GroupMult(given.k, given.point)

\* scalarMult(k, G) has returned a point that is not k.G
C20_WrongMultiple ==
    /\ given.fn = "scalarMult"
    /\ returned # NoLibraryCall
    /\ returned.value # GroupMult(given.k, given.point)
    /\ ~OnCurve(returned.value)

-----------------------------------------------------------------------------
(* The retry loop of rfc6979Sign.                                           *)

\* the candidate the next pass of the loop builds: T filled from V under K,
\* and k = bits2int(T)
nextCandidate ==
    LET filled == fillT(kk, v, <<>>)
    IN [t |-> filled.t, v |-> filled.v, secret |-> bits2int(filled.t, qlen)]

\* the next pass builds a nonce in range for which r = 0 or s = 0
Degenerate ==
    /\ pc = "loop"
    /\ ValidScalar(nextCandidate.secret)
    /\ LET point == scalarMult(nextCandidate.secret, G)
           r == mod(point.x, CURVE_ORDER)
           s == mod(modInverse(nextCandidate.secret, CURVE_ORDER)
                       * (bytesToBigInt(msgHash) + r * D), CURVE_ORDER)
       IN r = 0 \/ s = 0

\* the step takes K and V through K = HMAC(K, V || 0x00), V = HMAC(K, V)
Continuation ==
    LET k2 == hmac(kk, nextCandidate.v \o <<0>>)
    IN kk' = k2 /\ v' = hmac(k2, nextCandidate.v)

\* C21: a pass of the loop whose nonce is in range and gives r = 0 or s = 0
\* returns nothing and ends with the continuation step, so that the next
\* candidate is built under a new K.
C21_DegenerateReseeds ==
    [][(Iterate /\ Degenerate) => (rs' = rs /\ pc' = "loop" /\ Continuation)]_vars

\* a pass of the loop found r = 0 or s = 0 and the loop is at its top again
\* with the K that the pass began with
C21_SameK ==
    /\ pc = "loop"
    /\ lastRetry \in {"r0", "s0"}
    /\ \E vv \in {<<b>> : b \in Byte} :
          LET filled == fillT(kk, vv, <<>>)
          IN /\ filled.v = v
             /\ ValidScalar(bits2int(filled.t, qlen))
             /\ candidate(bits2int(filled.t, qlen), D, msgHash).kind = lastRetry

\* C22: a pass of the loop whose candidate k is 0 or >= N hands nothing to
\* scalarMult or modInverse: it returns nothing, takes the continuation step
\* and leaves the loop at its top, where the next candidate is built from
\* blocks V = HMAC(K, V) under the new K that fill at least qlen bits; and a
\* pass that returns a signature computed it from a candidate in range.
C22_NonceInRange ==
    /\ [][(Iterate /\ ~ValidScalar(nextCandidate.secret))
            => /\ rs' = rs
               /\ pc' = "loop"
               /\ Continuation
               /\ Len(nextCandidate'.t) * 8 >= qlen
               /\ SubSeq(nextCandidate'.t, 1, holen) = hmac(kk', v')]_vars
    /\ [][(Iterate /\ pc' = "signed")
            => /\ ValidScalar(nextCandidate.secret)
               /\ rs'.r = mod(scalarMult(nextCandidate.secret, G).x, CURVE_ORDER)]_vars

\* a signature was returned by a pass that followed an out-of-range
\* candidate, K and V being those of the continuation step moved on by one
\* block
C22_Witness ==
    /\ pc = "signed"
    /\ lastRetry = "range"
    /\ \E key \in {<<b>> : b \in Byte}, vv \in {<<b>> : b \in Byte} :
          /\ ~ValidScalar(bits2int(vv, qlen))
          /\ kk = hmac(key, vv \o <<0>>)
          /\ v = hmac(kk, hmac(kk, vv))

-----------------------------------------------------------------------------
(* The retry loop with the values of HMAC left open: what bounds the loop   *)
(* when nothing is assumed of the hash function.                            *)

\* values HMAC may return: 0 and 255 make a nonce out of range, 1 and 2 one
\* in range
HmacValues == {<<0>>, <<1>>, <<2>>, <<255>>}

\* one pass of the while (true) of rfc6979Sign, lines 166-191, each
\* hmac(sha256, ...) returning some value
IterateAnyHmac ==
    /\ UNCHANGED <<walletVars, contentVars, libraryVars>>
    /\ pc = "loop"
    /\ \E t \in HmacValues :
        LET secret == bits2int(t, qlen)
        IN IF inRange(secret)
           THEN LET c == candidate(secret, D, msgHash)
                IN IF c.kind = "return"
                   THEN /\ rs' = [r |-> c.r, s |-> c.s]
                        /\ pc' = "signed"
                        /\ kk' = kk
                        /\ v' = t
                        /\ UNCHANGED lastRetry
                   ELSE /\ lastRetry' = c.kind
                        /\ kk' = kk
                        /\ v' = t
                        /\ UNCHANGED <<rs, pc>>
           ELSE /\ lastRetry' = "range"
                /\ kk' \in HmacValues
                /\ v' \in HmacValues
                /\ UNCHANGED <<rs, pc>>
    /\ UNCHANGED <<now, call, readings, D, msgHash, timestampNs, ret, runs, first>>

NextLoop ==
    \/ EngineCall
    \/ IterateAnyHmac
    \/ EngineReturn

MaxLoopHash == 4

LoopInit == EngineInit /\ msgHash[1] > 255 - MaxLoopHash

\* the loop is scheduled: a pass that can be made is made
SpecLoop == LoopInit /\ [][NextLoop]_vars /\ WF_vars(IterateAnyHmac)

\* C23: the retry loop stops: a call of rfc6979Sign that has entered the
\* loop leaves it.
C23_LoopStops == (pc = "loop") ~> (pc # "loop")

\* the loop is at its top after an out-of-range candidate, with the K and V
\* it had at an earlier pass
C23_Witness ==
    /\ pc = "loop"
    /\ lastRetry = "range"
    /\ kk = <<255>>
    /\ v = <<255>>

====
